---- MODULE Spec2Model ----
(***************************************************************************)
(* Session-lifecycle / concurrency controller of browser_server.py:        *)
(* the admission queue of the HTTP middleware (log_requests) and the       *)
(* BrowserManager session (pages, liveness guard, lifecycle).              *)
(***************************************************************************)
EXTENDS Integers, Sequences, FiniteSets, TLC

\* ------------------------------------------------------------------ bounds
\* Concurrent connections (tasks inside log_requests at the same time).
NSlots == 3
\* Requests served in one run (request ids issued by uuid4).
MaxRequests == 3
\* Pages the engine creates in one run.
MaxPages == 3
\* Engine faults in one run: a page crashing or closing on its own, the
\* browser going away, an engine call failing on a live page, a failed launch.
MaxFaults == 2
\* Request events of the browser in one run.
MaxNetEvents == 4
\* Response events of the browser in one run.
MaxResponses == 2
\* Download events in one run.
MaxDownloads == 2
\* Dialogs opened by pages in one run.
MaxDialogs == 1

\* ------------------------------------------------------------------ state
VARIABLES
    request_queue,   \* deque of request ids (module global request_queue)
    slot,            \* per connection: the locals of log_requests
    next_id,         \* source of fresh request ids (uuid.uuid4().hex)
    admitted,        \* history: ids in the order they were appended
    started,         \* history: ids in the order their handler started
    completed,       \* history: ids in the order their ticket was released
    last_outcome,    \* history: how the last released command ended
    context,         \* BrowserManager.context is not None
    page,            \* BrowserManager.page (NoPage for None)
    listeners,       \* per page: download listeners attached by _attach_page_listeners
    hooks,           \* the context-level event handlers of start() are registered
    pages,           \* engine: context.pages, in creation order
    crashed,         \* engine: pages still listed but unresponsive
    engine_open,     \* engine: the browser context is alive
    next_page,       \* engine: source of fresh page identities
    faults,          \* engine faults so far
    h,               \* per connection: the locals of the running handler
    network_requests,        \* BrowserManager.network_requests (deque of entry ids)
    network_request_map,     \* entry id -> entry (its response fields)
    network_request_id_map,  \* id(request) -> entry id
    next_entry,      \* engine: source of fresh requests
    responses,       \* history: response events handled so far
    last_response,   \* history: the request of the last response event
    reading,         \* _handle_response tasks suspended in response.text()
    request_tasks,   \* _handle_request tasks created (line 344) and not yet run
    identity,        \* engine: request -> address of its live object (0: none)
    downloads,       \* BrowserManager.downloads (list of records)
    last_download,   \* BrowserManager.last_download (NoInfo for None)
    download_future, \* BrowserManager.download_future
    download_tasks,  \* per download: _handle_download tasks suspended in save_as
    next_download,   \* engine: source of fresh downloads
    awaited,         \* history: the records returned by /download/await
    dialog,          \* BrowserManager.dialog (0 for None)
    dialog_future,   \* BrowserManager.dialog_future
    dialog_once,     \* per page: handlers subscribed with page.once("dialog")
    next_dialog      \* engine: source of fresh dialogs

svars == <<context, page, listeners, hooks, pages, crashed, engine_open, next_page, faults>>

\* The network log and its correlation maps.
nvars == <<network_requests, network_request_map, network_request_id_map>>

\* Everything the event handlers keep.
evars == <<network_requests, network_request_map, network_request_id_map,
           next_entry, responses, last_response, reading, request_tasks, identity,
           downloads, last_download, download_future, download_tasks,
           next_download, awaited, dialog, dialog_future, dialog_once, next_dialog>>

vars == <<request_queue, slot, next_id, admitted, started, completed, last_outcome,
          context, page, listeners, hooks, pages, crashed, engine_open, next_page,
          faults, h,
          network_requests, network_request_map, network_request_id_map,
          next_entry, responses, last_response, reading, request_tasks, identity,
          downloads, last_download, download_future, download_tasks,
          next_download, awaited, dialog, dialog_future, dialog_once, next_dialog>>

\* self.page = None
NoPage == 0

PageIds == 1..MaxPages

Slots == 1..NSlots

Range(s) == {s[i] : i \in DOMAIN s}

\* A future field holding None; loop.create_future(); its later states are
\* "done" (set_result) and "cancelled" (wait_for timed out).
NoFuture == [state |-> "none", result |-> 0]

NewFuture == [state |-> "pending", result |-> 0]

\* The info dict of a download (lines 235 and 721): which download it
\* records and where it was saved ("download_dir" by the page listener,
\* "target" by download_url); NoInfo stands for None.
NoInfo == [download |-> 0, path |-> "none"]

Info(d, path) == [download |-> d, path |-> path]

\* download_future holding None, and right after loop.create_future().
NoDownloadFuture == [state |-> "none", result |-> NoInfo]

NewDownloadFuture == [state |-> "pending", result |-> NoInfo]

set_last_once(last, info) == IF last = NoInfo THEN info ELSE last

\* Lines 237 and 722: self.last_download = info.
set_last(last, info) == info

\* The empty dict.
EmptyMap == [x \in {} |-> 0]

\* ---------------------------------------------------------------- routing
\* A path is the tuple of its segments: "/" is <<>>, "/debug/info" is
\* <<"debug", "info">>, "/network/request/<id>" is <<"network", "request", id>>.
BypassPaths ==
    { <<>>, <<"health">>, <<"queue", "status">>, <<"docs", "raw">>,
      <<"downloads">>, <<"downloads", "last">>, <<"debug", "info">>,
      <<"network", "requests">> }

startswith_network_request(path) ==
    /\ Len(path) >= 3
    /\ SubSeq(path, 1, 2) = <<"network", "request">>

bypass_queue_no_prefix(path) == path \in BypassPaths

bypass_queue(path) ==
    path \in BypassPaths \/ startswith_network_request(path)

\* Routes registered on the app that the middleware sends through the queue.
QueuedPaths ==
    { <<"start">>, <<"stop">>, <<"navigate">>, <<"evaluate">>, <<"click">>,
      <<"scroll">>, <<"cdp", "send">>, <<"page", "new">>, <<"page", "switch">>,
      <<"page", "close">>, <<"page", "close_others">> }

\* Paths offered to the middleware: one queued and one bypass route in the
\* queue specifications, every bypass route in the bypass specification.
QueuePathsOffered == { <<"health">>, <<"evaluate">> }

BypassPathsOffered ==
    BypassPaths \cup { <<"network", "request", "e1">>, <<"evaluate">> }

\* ------------------------------------------------------- the middleware
\* No response has been built yet.
NoHeader == 0 - 1

IdleSlot ==
    [pc |-> "idle", request_id |-> 0, path |-> <<>>, bypass |-> FALSE,
     start_position |-> 0, waited |-> FALSE, outcome |-> "none", status |-> 0,
     header_position |-> NoHeader]

\* The locals of a handler that has not started yet.
H0 ==
    [hpc |-> "entry", ret |-> "none", after |-> "none", target |-> NoPage,
     attempts |-> 0, first |-> "none", second |-> "none", recovery |-> "none",
     ensured |-> FALSE, unchecked |-> FALSE, bare |-> FALSE, saw_closed |-> FALSE,
     close_res |-> "none", action |-> "none", got |-> 0, id |-> 0]

\* queue_condition.notify_all(): every task blocked in wait() is woken.
notify_one(s) ==
    IF \E r \in Slots : s[r].pc = "waiting"
    THEN LET w == CHOOSE r \in Slots : s[r].pc = "waiting"
         IN  [s EXCEPT ![w].pc = "woken"]
    ELSE s

notify_none(s) == s

notify_all(s) ==
    [r \in Slots |-> IF s[r].pc = "waiting"
                     THEN [s[r] EXCEPT !.pc = "woken"]
                     ELSE s[r]]

position_index(q) == Len(q) - 1

\* Line 1004: start_position = len(request_queue), after the append.
position(q) == Len(q)

\* request_queue.append(request_id)
enqueue_front(q, id) == <<id>> \o q

enqueue(q, id) == Append(q, id)

\* the loop condition's negation: request_queue[0] == request_id
is_turn_member(q, id) == id \in Range(q)

is_turn(q, id) == q[1] = id

\* the finally block's removal: popleft when at the head, else remove
RemoveFirst(q, id) ==
    LET i == CHOOSE k \in DOMAIN q : q[k] = id /\ \A j \in 1..(k-1) : q[j] # id
    IN  SubSeq(q, 1, i - 1) \o SubSeq(q, i + 1, Len(q))

release_keep(q, id) == q

release_reversed(q, id) ==
    LET rest == SelectSeq(q, LAMBDA x : x # id)
    IN  [i \in 1..Len(rest) |-> rest[Len(rest) + 1 - i]]

release_all(q, id) == <<>>

release(q, id) ==
    IF q # <<>> /\ q[1] = id THEN Tail(q)
    ELSE IF id \in Range(q) THEN RemoveFirst(q, id)
    ELSE q

\* Lines 997-1005 and 1009-1010: classify the path, draw the request id,
\* and either append the ticket and notify, or bypass with position 0.
\* A new connection takes the first free slot (slots are interchangeable).
Arrive(r, path) ==
    /\ slot[r].pc = "idle"
    /\ \A s \in 1..(r - 1) : slot[s].pc # "idle"
    /\ next_id <= MaxRequests
    /\ next_id' = next_id + 1
    /\ IF bypass_queue(path)
       THEN /\ slot' = [slot EXCEPT ![r] =
                   [IdleSlot EXCEPT !.pc = "running", !.request_id = next_id,
                                    !.path = path, !.bypass = TRUE,
                                    !.start_position = 0]]
            /\ UNCHANGED <<request_queue, admitted>>
       ELSE /\ request_queue' = enqueue(request_queue, next_id)
            /\ admitted' = Append(admitted, next_id)
            /\ slot' = [notify_all(slot) EXCEPT ![r] =
                   [IdleSlot EXCEPT !.pc = "enqueued", !.request_id = next_id,
                                    !.path = path, !.bypass = FALSE,
                                    !.start_position = position(request_queue')]]
    /\ UNCHANGED <<started, completed, last_outcome, svars, h>>
    /\ UNCHANGED evars

\* Lines 1006-1008: under the condition's lock, run when at the head,
\* otherwise wait() (which releases the lock and blocks until notified).
AwaitTurn(r) ==
    /\ slot[r].pc \in {"enqueued", "woken"}
    /\ request_queue # <<>>
    /\ IF is_turn(request_queue, slot[r].request_id)
       THEN /\ slot' = [slot EXCEPT ![r].pc = "running"]
            /\ started' = Append(started, slot[r].request_id)
       ELSE /\ slot' = [slot EXCEPT ![r].pc = "waiting", ![r].waited = TRUE]
            /\ UNCHANGED started
    /\ UNCHANGED <<request_queue, next_id, admitted, completed, last_outcome, svars, h>>
    /\ UNCHANGED evars

\* Lines 1012-1025 seen from the middleware: call_next returns a response
\* (2xx, or the error response FastAPI builds from an HTTPException) or
\* raises, after any number of suspensions.
Outcomes == {"ok", "http_error", "exception"}

StatusOf(o) == IF o = "ok" THEN 200 ELSE IF o = "http_error" THEN 400 ELSE 500

CallNext(r) ==
    /\ slot[r].pc = "running"
    /\ \E o \in Outcomes :
          slot' = [slot EXCEPT ![r].pc = "finally", ![r].outcome = o,
                               ![r].status = StatusOf(o),
                               ![r].header_position = slot[r].start_position]
    /\ UNCHANGED <<request_queue, next_id, admitted, started, completed, last_outcome,
                   svars, h>>
    /\ UNCHANGED evars

\* Lines 1026-1033: the finally block.
Release(r) ==
    /\ slot[r].pc = "finally"
    /\ IF slot[r].bypass
       THEN /\ slot' = [slot EXCEPT ![r] = IdleSlot]
            /\ UNCHANGED <<request_queue, completed, last_outcome>>
       ELSE /\ request_queue' = release(request_queue, slot[r].request_id)
            /\ slot' = [notify_all(slot) EXCEPT ![r] = IdleSlot]
            /\ completed' = Append(completed, slot[r].request_id)
            /\ last_outcome' = slot[r].outcome
    /\ h' = [h EXCEPT ![r] = H0]
    /\ UNCHANGED <<next_id, admitted, started, svars>>
    /\ UNCHANGED evars

\* The session after construction (AUTO_START off), or after the lifespan
\* hook has run start() (AUTO_START on): one page, adopted and hooked.
SInit ==
    /\ crashed = {}
    /\ faults = 0
    /\ \/ /\ context = FALSE /\ page = NoPage /\ hooks = FALSE
          /\ listeners = [p \in PageIds |-> 0]
          /\ pages = <<>> /\ engine_open = FALSE /\ next_page = 1
       \/ /\ context = TRUE /\ page = 1 /\ hooks = TRUE
          /\ listeners = [p \in PageIds |-> IF p = 1 THEN 1 ELSE 0]
          /\ pages = <<1>> /\ engine_open = TRUE /\ next_page = 2

\* BrowserManager.__init__, lines 187-196.
EInit ==
    /\ network_requests = <<>>
    /\ network_request_map = EmptyMap
    /\ network_request_id_map = EmptyMap
    /\ next_entry = 1
    /\ responses = 0
    /\ last_response = [request |-> 0, hit |-> FALSE]
    /\ reading = {}
    /\ request_tasks = {}
    /\ identity = [n \in 1..MaxNetEvents |-> 0]
    /\ downloads = <<>>
    /\ last_download = NoInfo
    /\ download_future = NoDownloadFuture
    /\ download_tasks = [d \in 1..MaxDownloads |-> 0]
    /\ next_download = 1
    /\ awaited = <<>>
    /\ dialog = 0
    /\ dialog_future = NoFuture
    /\ dialog_once = [p \in PageIds |-> 0]
    /\ next_dialog = 1

QInit ==
    /\ request_queue = <<>>
    /\ slot = [r \in Slots |-> IdleSlot]
    /\ next_id = 1
    /\ admitted = <<>>
    /\ started = <<>>
    /\ completed = <<>>
    /\ last_outcome = "none"
    /\ h = [r \in Slots |-> H0]
    /\ SInit
    /\ EInit

QNext ==
    \E r \in Slots :
        \/ \E path \in QueuePathsOffered : Arrive(r, path)
        \/ AwaitTurn(r)
        \/ CallNext(r)
        \/ Release(r)

SpecQueue == QInit /\ [][QNext]_vars

BNext ==
    \E r \in Slots :
        \/ \E path \in BypassPathsOffered : Arrive(r, path)
        \/ AwaitTurn(r)
        \/ CallNext(r)
        \/ Release(r)

\* AUTO_START off: the service comes up with no session.
BInit == QInit /\ ~context

SpecBypass == BInit /\ [][BNext]_vars

\* The event loop runs every ready task, and every handler returns or raises.
QFairness ==
    \A r \in Slots :
        /\ WF_vars(AwaitTurn(r))
        /\ WF_vars(CallNext(r))
        /\ WF_vars(Release(r))

FairSpecQueue == QInit /\ [][QNext]_vars /\ QFairness

\* ------------------------------------------------------ admission queue
IsPrefix(s, t) == Len(s) <= Len(t) /\ SubSeq(t, 1, Len(s)) = s

Executing(r) == ~slot[r].bypass /\ slot[r].pc \in {"running", "finally"}

\* C1: at most one queued command executes its handler at a time, and a
\* handler runs only while its own ticket is at the head of the queue.
C1_OneAtATime ==
    /\ Cardinality({r \in Slots : Executing(r)}) <= 1
    /\ \A r \in Slots :
          Executing(r) =>
             request_queue # <<>> /\ request_queue[1] = slot[r].request_id

C1_Witness ==
    \E r, s, t \in Slots :
        /\ Executing(r) /\ slot[r].pc = "running"
        /\ slot[s].pc = "waiting"
        /\ slot[t].pc = "woken"

\* C2: queued commands start and complete in the order their tickets
\* were appended, whatever the duration of each handler.
C2_Fifo ==
    /\ IsPrefix(started, admitted)
    /\ IsPrefix(completed, started)

C2_Witness ==
    /\ Len(admitted) >= 3
    /\ Len(completed) >= 2
    /\ \E r \in Slots : slot[r].pc = "running" /\ slot[r].waited

\* C3: when a queued command finishes (response, HTTP error or unhandled
\* exception) its ticket leaves the queue, the next ticket becomes the
\* head, every waiter is woken, and no finished ticket stays queued.
C3_Step ==
    /\ \A r \in Slots :
          (slot[r].pc = "finally" /\ ~slot[r].bypass /\ slot'[r].pc = "idle") =>
             /\ request_queue' = Tail(request_queue)
             /\ slot[r].request_id \notin Range(request_queue')
             /\ \A s \in Slots : slot'[s].pc # "waiting"
    /\ \A i \in DOMAIN completed' : completed'[i] \notin Range(request_queue')

C3_ReleasedOnFinish == [][C3_Step]_vars

C3_Witness ==
    /\ last_outcome = "exception"
    /\ Len(completed) = 1
    /\ \E r, s \in Slots : r # s /\ slot[r].pc = "woken" /\ slot[s].pc = "woken"

\* C4: with fair scheduling and terminating handlers every appended ticket
\* reaches the head and its command executes; no waiter stays blocked
\* while its own ticket is at the head.
C4_NoLostWakeup ==
    \A r \in Slots :
        slot[r].pc = "waiting" => request_queue[1] # slot[r].request_id

C4_NoStarvation ==
    /\ []C4_NoLostWakeup
    /\ \A r \in Slots :
          (slot[r].pc \in {"enqueued", "waiting", "woken"}) ~> (slot[r].pc = "running")

C4_Witness ==
    \E r, s \in Slots :
        /\ slot[r].pc = "running" /\ slot[r].waited /\ slot[r].start_position = 3
        /\ slot[s].pc = "idle"

\* C5: a request to a bypass endpoint never takes a ticket and never waits:
\* it goes straight to its handler, with position 0, whatever the queue
\* holds, and its own steps leave the queue as it was.
C5_Endpoints ==
    { <<>>, <<"health">>, <<"queue", "status">>, <<"docs", "raw">>,
      <<"downloads">>, <<"downloads", "last">>, <<"debug", "info">>,
      <<"network", "requests">>, <<"network", "request", "e1">> }

C5_Step ==
    \A r \in Slots :
        /\ (slot'[r].pc # "idle" /\ slot'[r].path \in C5_Endpoints) =>
              /\ slot'[r].pc \in {"running", "finally"}
              /\ slot'[r].start_position = 0
              /\ slot'[r].request_id \notin Range(request_queue')
              /\ slot'[r].request_id \notin Range(admitted')
        /\ ( /\ slot'[r] # slot[r]
             /\ \/ slot[r].pc # "idle" /\ slot[r].path \in C5_Endpoints
                \/ slot'[r].pc # "idle" /\ slot'[r].path \in C5_Endpoints ) =>
              request_queue' = request_queue

C5_BypassIndependent == [][C5_Step]_vars

C5_Witness ==
    \E r, s, t \in Slots :
        /\ slot[r].path = <<"network", "request", "e1">> /\ slot[r].pc = "finally"
        /\ Executing(s) /\ slot[s].pc = "running"
        /\ slot[t].pc = "waiting"
        /\ slot[r].request_id > slot[t].request_id

\* ------------------------------------------------------------ cancellation
\* The task serving a request is cancelled (the client went away) while it
\* waits for its turn: CancelledError is raised out of the lock acquisition
\* or of queue_condition.wait() (lines 1002-1008), which are outside the
\* try statement of line 1012, so the finally block does not run.
CancelWaiting(r) ==
    /\ slot[r].pc \in {"enqueued", "waiting", "woken"}
    /\ slot' = [slot EXCEPT ![r] = IdleSlot]
    /\ UNCHANGED <<request_queue, next_id, admitted, started, completed, last_outcome,
                   svars, h>>
    /\ UNCHANGED evars

\* The task is cancelled inside call_next: CancelledError is not an
\* Exception, so line 1019 does not catch it and the finally block runs.
CancelRunning(r) ==
    /\ slot[r].pc = "running"
    /\ slot' = [slot EXCEPT ![r].pc = "finally", ![r].outcome = "cancelled",
                            ![r].status = 500]
    /\ UNCHANGED <<request_queue, next_id, admitted, started, completed, last_outcome,
                   svars, h>>
    /\ UNCHANGED evars

CNext ==
    \E r \in Slots :
        \/ \E path \in QueuePathsOffered : Arrive(r, path)
        \/ AwaitTurn(r)
        \/ CallNext(r)
        \/ Release(r)
        \/ CancelWaiting(r)
        \/ CancelRunning(r)

SpecCancel == QInit /\ [][CNext]_vars

\* ================================================================ session
\* ------------------------------------------------------------ the engine
Alive(p) == engine_open /\ p \in Range(pages) /\ p \notin crashed

\* Outcomes of an engine call on page p: "closed" is the signature
\* "Target page, context or browser has been closed", "destroyed" is
\* "Execution context was destroyed", "other" any other engine error.
PageCall(p) ==
    IF ~engine_open \/ p \notin Range(pages) THEN {"closed"}
    ELSE IF p \in crashed THEN {"other"}
    ELSE IF faults < MaxFaults THEN {"ok", "destroyed", "other"}
    ELSE {"ok"}

FaultCost(p, res) == IF Alive(p) /\ res # "ok" THEN 1 ELSE 0

Without(seq, p) == SelectSeq(seq, LAMBDA x : x # p)

Only(seq, p) == SelectSeq(seq, LAMBDA x : x = p)

\* A page closes on its own (window.close(), the user closing a tab).
EnginePageClosed(p) ==
    /\ engine_open /\ p \in Range(pages) /\ faults < MaxFaults
    /\ pages' = Without(pages, p)
    /\ crashed' = crashed \ {p}
    /\ faults' = faults + 1
    /\ UNCHANGED <<request_queue, slot, next_id, admitted, started, completed,
                   last_outcome, context, page, listeners, hooks, engine_open,
                   next_page, h>>
    /\ UNCHANGED evars

\* A page crashes: it stays in context.pages and every call on it fails.
EnginePageCrashed(p) ==
    /\ engine_open /\ p \in Range(pages) /\ p \notin crashed /\ faults < MaxFaults
    /\ crashed' = crashed \cup {p}
    /\ faults' = faults + 1
    /\ UNCHANGED <<request_queue, slot, next_id, admitted, started, completed,
                   last_outcome, context, page, listeners, hooks, pages,
                   engine_open, next_page, h>>
    /\ UNCHANGED evars

\* The browser goes away (killed, or its last window closed).
EngineContextClosed ==
    /\ engine_open /\ faults < MaxFaults
    /\ engine_open' = FALSE
    /\ pages' = <<>>
    /\ crashed' = {}
    /\ faults' = faults + 1
    /\ UNCHANGED <<request_queue, slot, next_id, admitted, started, completed,
                   last_outcome, context, page, listeners, hooks, next_page, h>>
    /\ UNCHANGED evars

\* ------------------------------------------------------- handler helpers
qhist == <<request_queue, next_id, admitted, started, completed, last_outcome>>

engine == <<pages, crashed, engine_open, next_page>>

At(r, paths, label) ==
    slot[r].pc = "running" /\ slot[r].path \in paths /\ h[r].hpc = label

\* page.on("download", ...) in _attach_page_listeners
attach(l, p) == [l EXCEPT ![p] = @ + 1]

\* context.on("page", ...) of start(): fires for every page opened later
on_page(l, p) == IF hooks THEN attach(l, p) ELSE l

\* Handlers whose body is inside try/except Exception -> HTTPException(500)
Wrapped == { <<"navigate">>, <<"evaluate">>, <<"cdp", "send">> }

\* What the caller gets for an exception leaving a handler.
OnError(path, kind) ==
    IF path \in Wrapped THEN <<500, "http_error">>
    ELSE IF kind = "http400" THEN <<400, "http_error">>
    ELSE IF kind = "http404" THEN <<404, "http_error">>
    ELSE <<500, "exception">>

Fin(r, status, outcome) ==
    slot' = [slot EXCEPT ![r].pc = "finally", ![r].status = status,
                         ![r].outcome = outcome,
                         ![r].header_position = slot[r].start_position]

RaiseIn(r, kind) ==
    Fin(r, OnError(slot[r].path, kind)[1], OnError(slot[r].path, kind)[2])

Returned(hr, ret, p) ==
    [hr EXCEPT !.hpc = ret, !.ensured = TRUE, !.target = p,
               !.recovery = IF ret = "sleep" THEN "done" ELSE @]

Failed(hr, ret) ==
    [hr EXCEPT !.hpc = "raised", !.recovery = IF ret = "sleep" THEN "failed" ELSE @]

\* ----------------------------------------------------------- _ensure_page
\* Lines 199-206 up to the await of page.title(): hr are the caller's
\* locals, ret is where the caller continues.
EnsureCall(r, ret, hr) ==
    IF ~context
    THEN /\ RaiseIn(r, "http400")
         /\ h' = [h EXCEPT ![r] = Failed(hr, ret)]
         /\ UNCHANGED <<page, listeners>>
    ELSE IF page = NoPage
    THEN IF pages # <<>>
         THEN /\ page' = pages[1]
              /\ listeners' = attach(listeners, pages[1])
              /\ h' = [h EXCEPT ![r] = Returned(hr, ret, pages[1])]
              /\ UNCHANGED slot
         ELSE /\ h' = [h EXCEPT ![r] = [hr EXCEPT !.hpc = "ens_new", !.ret = ret]]
              /\ UNCHANGED <<slot, page, listeners>>
    ELSE /\ h' = [h EXCEPT ![r] = [hr EXCEPT !.hpc = "ens_title", !.ret = ret,
                                              !.target = page]]
         /\ UNCHANGED <<slot, page, listeners>>

\* Lines 206-213: page.title() returns or raises; on a raise the current
\* page becomes context.pages[0], or a new page is requested. With
\* self.context cleared meanwhile, self.context.pages raises AttributeError.
ensure_title(r) ==
    /\ slot[r].pc = "running" /\ h[r].hpc = "ens_title"
    /\ \E res \in PageCall(h[r].target) :
         /\ faults' = faults + FaultCost(h[r].target, res)
         /\ IF res = "ok"
            THEN /\ h' = [h EXCEPT ![r] = Returned(h[r], h[r].ret, page)]
                 /\ UNCHANGED <<page, listeners>>
                 /\ UNCHANGED slot
            ELSE IF ~context
            THEN /\ RaiseIn(r, "other")
                 /\ h' = [h EXCEPT ![r] = Failed(h[r], h[r].ret)]
                 /\ UNCHANGED <<page, listeners>>
            ELSE IF pages # <<>>
            THEN /\ page' = pages[1]
                 /\ listeners' = attach(listeners, pages[1])
                 /\ h' = [h EXCEPT ![r] = Returned(h[r], h[r].ret, pages[1])]
                 /\ UNCHANGED slot
            ELSE /\ h' = [h EXCEPT ![r].hpc = "ens_new"]
                 /\ UNCHANGED <<slot, page, listeners>>
    /\ UNCHANGED <<qhist, context, hooks, engine>>
    /\ UNCHANGED evars

new_page_returns(open) == FALSE

\* Lines 202 and 212: context.new_page() raises on a context that has been
\* closed (by the engine, or by the context.close() of stop()).
new_page_raises(open) == ~open

\* Lines 202 and 212-213: context.new_page() returns or raises.
ensure_new_page(r) ==
    /\ slot[r].pc = "running" /\ h[r].hpc = "ens_new"
    /\ IF new_page_raises(engine_open)
       THEN /\ RaiseIn(r, "closed")
            /\ h' = [h EXCEPT ![r] = Failed(h[r], h[r].ret)]
            /\ UNCHANGED <<page, listeners, pages, next_page>>
       ELSE /\ next_page <= MaxPages
            /\ pages' = Append(pages, next_page)
            /\ next_page' = next_page + 1
            /\ page' = next_page
            /\ listeners' = attach(on_page(listeners, next_page), next_page)
            /\ h' = [h EXCEPT ![r] = Returned(h[r], h[r].ret, next_page)]
            /\ UNCHANGED slot
    /\ UNCHANGED <<qhist, context, hooks, crashed, engine_open, faults>>
    /\ UNCHANGED evars

\* ------------------------------------------------------------------ stop
\* Lines 350-354 up to the await of context.close().
StopCall(r, after, hr) ==
    IF ~context
    THEN /\ IF after = "ret200" THEN Fin(r, 200, "ok") ELSE RaiseIn(r, "http400")
         /\ h' = [h EXCEPT ![r] = [hr EXCEPT !.hpc = "returned"]]
    ELSE /\ h' = [h EXCEPT ![r] = [hr EXCEPT !.hpc = "stop_close", !.after = after]]
         /\ UNCHANGED slot

close_error_raised(res) == IF res = "ok" THEN "pass" ELSE "raise"

\* Lines 355-356: "except Exception: pass" around context.close().
close_error(res) == "pass"

\* Outcomes of context.close(): it raises only on a browser that is
\* already gone.
CloseResults == IF engine_open THEN {"ok"} ELSE {"ok", "error"}

\* Lines 354-359: context.close() has returned or raised; playwright.stop()
\* is awaited next (its failure is swallowed the same way and changes
\* nothing the model tracks).
stop_close(r) ==
    /\ slot[r].pc = "running" /\ h[r].hpc = "stop_close"
    /\ engine_open' = FALSE
    /\ pages' = <<>>
    /\ crashed' = {}
    /\ \E res \in CloseResults :
         IF close_error(res) = "raise"
         THEN /\ RaiseIn(r, "other")
              /\ h' = [h EXCEPT ![r].hpc = "raised", ![r].close_res = res]
         ELSE /\ h' = [h EXCEPT ![r].hpc = "stop_clear", ![r].close_res = res]
              /\ UNCHANGED slot
    /\ UNCHANGED <<qhist, context, page, listeners, hooks, next_page, faults>>
    /\ UNCHANGED evars

\* Lines 363-377: the fields are cleared, then stop() returns to its caller
\* (the /stop route, or a guard that raises HTTPException(400)).
stop_clear(r) ==
    /\ slot[r].pc = "running" /\ h[r].hpc = "stop_clear"
    /\ page' = NoPage
    /\ context' = FALSE
    /\ hooks' = FALSE
    /\ dialog' = 0
    /\ dialog_future' = NoFuture
    /\ download_future' = NoDownloadFuture
    /\ network_requests' = <<>>
    /\ network_request_map' = EmptyMap
    /\ network_request_id_map' = EmptyMap
    /\ IF h[r].after = "ret200" THEN Fin(r, 200, "ok") ELSE RaiseIn(r, "http400")
    /\ h' = [h EXCEPT ![r].hpc = "returned"]
    /\ UNCHANGED <<qhist, listeners, engine, faults>>
    /\ UNCHANGED <<next_entry, responses, last_response, reading, request_tasks, identity, downloads,
                   last_download, download_tasks, next_download, awaited,
                   dialog_once, next_dialog>>

stop(r) ==
    /\ At(r, {<<"stop">>}, "entry")
    /\ StopCall(r, "ret200", h[r])
    /\ UNCHANGED <<qhist, svars>>
    /\ UNCHANGED evars

\* ----------------------------------------------------------------- start
never_running(ctx) == FALSE

\* Line 294: "if self.context".
already_running(ctx) == ctx

\* Lines 294-331: already running, or the launch is awaited.
start(r) ==
    /\ At(r, {<<"start">>}, "entry")
    /\ IF already_running(context)
       THEN Fin(r, 200, "ok") /\ h' = [h EXCEPT ![r].hpc = "returned"]
       ELSE h' = [h EXCEPT ![r].hpc = "launch"] /\ UNCHANGED slot
    /\ UNCHANGED <<qhist, svars>>
    /\ UNCHANGED evars

\* Line 331: launch_persistent_context returns a context with its first
\* page, or raises (bad channel or profile path).
start_launch(r) ==
    /\ At(r, {<<"start">>}, "launch")
    /\ \/ /\ next_page <= MaxPages
          /\ context' = TRUE
          /\ engine_open' = TRUE
          /\ pages' = <<next_page>>
          /\ crashed' = {}
          /\ next_page' = next_page + 1
          /\ h' = [h EXCEPT ![r].hpc = "init_script"]
          /\ UNCHANGED <<slot, faults>>
       \/ /\ faults < MaxFaults
          /\ faults' = faults + 1
          /\ RaiseIn(r, "other")
          /\ h' = [h EXCEPT ![r].hpc = "raised"]
          /\ UNCHANGED <<context, engine>>
    /\ UNCHANGED <<qhist, page, listeners, hooks>>
    /\ UNCHANGED evars

\* Lines 333-347: add_init_script has returned or raised; the first page is
\* adopted (or a new one requested) and the event handlers are registered.
start_adopt(r) ==
    /\ At(r, {<<"start">>}, "init_script")
    /\ IF ~engine_open
       THEN /\ RaiseIn(r, "closed")
            /\ h' = [h EXCEPT ![r].hpc = "raised"]
            /\ UNCHANGED <<page, listeners, hooks>>
       ELSE IF pages # <<>>
       THEN /\ page' = pages[1]
            /\ listeners' = attach(listeners, pages[1])
            /\ hooks' = TRUE
            /\ Fin(r, 200, "ok")
            /\ h' = [h EXCEPT ![r].hpc = "returned"]
       ELSE /\ h' = [h EXCEPT ![r].hpc = "start_new"]
            /\ UNCHANGED <<slot, page, listeners, hooks>>
    /\ UNCHANGED <<qhist, context, engine, faults>>
    /\ UNCHANGED evars

\* Line 340, second arm: context.new_page() returns or raises.
start_new_page(r) ==
    /\ At(r, {<<"start">>}, "start_new")
    /\ IF ~engine_open
       THEN /\ RaiseIn(r, "closed")
            /\ h' = [h EXCEPT ![r].hpc = "raised"]
            /\ UNCHANGED <<page, listeners, hooks, pages, next_page>>
       ELSE /\ next_page <= MaxPages
            /\ pages' = Append(pages, next_page)
            /\ next_page' = next_page + 1
            /\ page' = next_page
            /\ listeners' = attach(listeners, next_page)
            /\ hooks' = TRUE
            /\ Fin(r, 200, "ok")
            /\ h' = [h EXCEPT ![r].hpc = "returned"]
    /\ UNCHANGED <<qhist, context, crashed, engine_open, faults>>
    /\ UNCHANGED evars

\* ------------------------------------------- _retry_if_context_destroyed
Guarded == { <<"evaluate">>, <<"scroll">> }

PageOps == { <<"navigate">>, <<"evaluate">>, <<"scroll">>, <<"click">> }

FirstAwait(path) ==
    IF path \in Guarded THEN "act1"
    ELSE IF path = <<"navigate">> THEN "goto"
    ELSE "click"

no_page_unchecked(pg) == FALSE

\* Lines 380, 399, 506, 553: "if not self.page".
no_page(pg) == pg = NoPage

\* navigate / evaluate / scroll / click up to their first await: the
\* "Browser not started" check on self.page, then _ensure_page.
page_op(r) ==
    /\ At(r, PageOps, "entry")
    /\ IF no_page(page)
       THEN /\ Fin(r, 400, "http_error")
            /\ h' = [h EXCEPT ![r].hpc = "raised"]
            /\ UNCHANGED <<page, listeners>>
       ELSE EnsureCall(r, FirstAwait(slot[r].path), h[r])
    /\ UNCHANGED <<qhist, context, hooks, engine, faults>>
    /\ UNCHANGED evars

retry_never(res) == "raise"

\* Lines 218-227: what the except clause does with the first failure.
retry_if(res) ==
    IF res = "destroyed" THEN "recover"
    ELSE IF res = "closed" THEN "stop"
    ELSE "raise"

\* Lines 216-227: the first attempt returns or raises.
guard_first(r) ==
    /\ At(r, Guarded, "act1")
    /\ \E res \in PageCall(h[r].target) :
         LET hr == [h[r] EXCEPT !.attempts = 1, !.first = res,
                                !.saw_closed = (res = "closed")]
         IN  /\ faults' = faults + FaultCost(h[r].target, res)
             /\ IF res = "ok"
                THEN /\ Fin(r, 200, "ok")
                     /\ h' = [h EXCEPT ![r] = [hr EXCEPT !.hpc = "returned"]]
                     /\ UNCHANGED <<page, listeners>>
                ELSE IF retry_if(res) = "recover"
                THEN EnsureCall(r, "sleep", hr)
                ELSE IF retry_if(res) = "stop"
                THEN /\ StopCall(r, "raise400", hr)
                     /\ UNCHANGED <<page, listeners>>
                ELSE /\ RaiseIn(r, "other")
                     /\ h' = [h EXCEPT ![r] = [hr EXCEPT !.hpc = "raised"]]
                     /\ UNCHANGED <<page, listeners>>
    /\ UNCHANGED <<qhist, context, hooks, engine>>
    /\ UNCHANGED evars

\* Line 222: asyncio.sleep(0.2) is over; func() is called again and reads
\* self.page at that moment.
guard_sleep(r) ==
    /\ At(r, Guarded, "sleep")
    /\ IF page = NoPage
       THEN /\ RaiseIn(r, "other")
            /\ h' = [h EXCEPT ![r].hpc = "raised"]
       ELSE /\ h' = [h EXCEPT ![r].hpc = "act2", ![r].target = page]
            /\ UNCHANGED slot
    /\ UNCHANGED <<qhist, svars>>
    /\ UNCHANGED evars

\* Line 223: the retry returns or raises; nothing catches its failure.
guard_retry(r) ==
    /\ At(r, Guarded, "act2")
    /\ \E res \in PageCall(h[r].target) :
         /\ faults' = faults + FaultCost(h[r].target, res)
         /\ h' = [h EXCEPT ![r].attempts = 2, ![r].second = res,
                           ![r].saw_closed = (@ \/ res = "closed"),
                           ![r].hpc = IF res = "ok" THEN "returned" ELSE "raised"]
         /\ IF res = "ok" THEN Fin(r, 200, "ok") ELSE RaiseIn(r, res)
    /\ UNCHANGED <<qhist, context, page, listeners, hooks, engine>>
    /\ UNCHANGED evars

\* navigate, line 386: page.goto returns or raises.
navigate_goto(r) ==
    /\ At(r, {<<"navigate">>}, "goto")
    /\ \E res \in PageCall(h[r].target) :
         /\ faults' = faults + FaultCost(h[r].target, res)
         /\ h' = [h EXCEPT ![r].bare = TRUE,
                           ![r].saw_closed = (res = "closed"),
                           ![r].hpc = IF res = "ok" THEN "nav_title" ELSE "raised"]
         /\ IF res = "ok" THEN UNCHANGED slot ELSE RaiseIn(r, res)
    /\ UNCHANGED <<qhist, context, page, listeners, hooks, engine>>
    /\ UNCHANGED evars

\* navigate, lines 387-394: the waits are over and page.title() is read.
navigate_title(r) ==
    /\ At(r, {<<"navigate">>}, "nav_title")
    /\ \E res \in PageCall(page) :
         /\ faults' = faults + FaultCost(page, res)
         /\ h' = [h EXCEPT ![r].hpc = IF res = "ok" THEN "returned" ELSE "raised"]
         /\ IF res = "ok" THEN Fin(r, 200, "ok") ELSE RaiseIn(r, res)
    /\ UNCHANGED <<qhist, context, page, listeners, hooks, engine>>
    /\ UNCHANGED evars

\* click, line 516: locator.click returns or raises.
click_act(r) ==
    /\ At(r, {<<"click">>}, "click")
    /\ \E res \in PageCall(h[r].target) :
         /\ faults' = faults + FaultCost(h[r].target, res)
         /\ h' = [h EXCEPT ![r].bare = TRUE,
                           ![r].saw_closed = (res = "closed"),
                           ![r].hpc = IF res = "ok" THEN "returned" ELSE "raised"]
         /\ IF res = "ok" THEN Fin(r, 200, "ok") ELSE RaiseIn(r, res)
    /\ UNCHANGED <<qhist, context, page, listeners, hooks, engine>>
    /\ UNCHANGED evars

\* ------------------------------------------------------------ get_status
StatusPaths == { <<>>, <<"health">>, <<"debug", "info">> }

\* Lines 789-793 up to the first await.
get_status(r) ==
    /\ At(r, StatusPaths, "entry")
    /\ IF ~context \/ page = NoPage
       THEN /\ Fin(r, 200, "ok")
            /\ h' = [h EXCEPT ![r].hpc = "returned"]
            /\ UNCHANGED <<page, listeners>>
       ELSE EnsureCall(r, "st_title", h[r])
    /\ UNCHANGED <<qhist, context, hooks, engine, faults>>
    /\ UNCHANGED evars

\* Line 793: page.title() returns or raises (nothing catches it); with
\* self.page cleared meanwhile the title is None and nothing was awaited.
status_title(r) ==
    /\ At(r, StatusPaths, "st_title")
    /\ IF h[r].target = NoPage
       THEN /\ Fin(r, 200, "ok")
            /\ h' = [h EXCEPT ![r].hpc = "returned"]
            /\ UNCHANGED faults
       ELSE \E res \in PageCall(h[r].target) :
              /\ faults' = faults + FaultCost(h[r].target, res)
              /\ h' = [h EXCEPT ![r].hpc = IF res = "ok" THEN "returned" ELSE "raised"]
              /\ IF res = "ok" THEN Fin(r, 200, "ok") ELSE RaiseIn(r, res)
    /\ UNCHANGED <<qhist, context, page, listeners, hooks, engine>>
    /\ UNCHANGED evars

\* -------------------------------------------------------------- cdp_send
\* Lines 878-881 up to the await of new_cdp_session(self.page).
cdp_send(r) ==
    /\ At(r, {<<"cdp", "send">>}, "entry")
    /\ IF ~context \/ page = NoPage
       THEN /\ Fin(r, 400, "http_error")
            /\ h' = [h EXCEPT ![r].hpc = "raised"]
       ELSE /\ h' = [h EXCEPT ![r].hpc = "cdp", ![r].target = page,
                              ![r].unchecked = TRUE, ![r].bare = TRUE]
            /\ UNCHANGED slot
    /\ UNCHANGED <<qhist, svars>>
    /\ UNCHANGED evars

\* Lines 881-887: the session calls return or raise.
cdp_result(r) ==
    /\ At(r, {<<"cdp", "send">>}, "cdp")
    /\ \E res \in PageCall(h[r].target) :
         /\ faults' = faults + FaultCost(h[r].target, res)
         /\ h' = [h EXCEPT ![r].saw_closed = (res = "closed"),
                           ![r].hpc = IF res = "ok" THEN "returned" ELSE "raised"]
         /\ IF res = "ok" THEN Fin(r, 200, "ok") ELSE RaiseIn(r, res)
    /\ UNCHANGED <<qhist, context, page, listeners, hooks, engine>>
    /\ UNCHANGED evars

\* ------------------------------------------------------- page management
\* new_page, lines 817-820 up to the await of context.new_page().
new_page(r) ==
    /\ At(r, {<<"page", "new">>}, "entry")
    /\ IF ~context
       THEN /\ Fin(r, 400, "http_error")
            /\ h' = [h EXCEPT ![r].hpc = "raised"]
       ELSE /\ h' = [h EXCEPT ![r].hpc = "np_new"]
            /\ UNCHANGED slot
    /\ UNCHANGED <<qhist, svars>>
    /\ UNCHANGED evars

\* Lines 820-830: the page is created and becomes current, or the closed
\* signature leads to stop(); with a url, goto is awaited next.
new_page_created(r) ==
    /\ At(r, {<<"page", "new">>}, "np_new")
    /\ IF ~engine_open
       THEN /\ StopCall(r, "raise400", h[r])
            /\ UNCHANGED <<page, listeners, pages, next_page>>
       ELSE /\ next_page <= MaxPages
            /\ pages' = Append(pages, next_page)
            /\ next_page' = next_page + 1
            /\ page' = next_page
            /\ listeners' = on_page(listeners, next_page)
            /\ \E url \in BOOLEAN :
                 h' = [h EXCEPT ![r].target = next_page,
                                ![r].hpc = IF url THEN "np_goto" ELSE "np_title"]
            /\ UNCHANGED slot
    /\ UNCHANGED <<qhist, context, hooks, crashed, engine_open, faults>>
    /\ UNCHANGED evars

\* Lines 830-838: p.goto and the waits return, or raise -> HTTPException(500).
new_page_goto(r) ==
    /\ At(r, {<<"page", "new">>}, "np_goto")
    /\ \E res \in PageCall(h[r].target) :
         /\ faults' = faults + FaultCost(h[r].target, res)
         /\ h' = [h EXCEPT ![r].saw_closed = (res = "closed"),
                           ![r].hpc = IF res = "ok" THEN "np_title" ELSE "raised"]
         /\ IF res = "ok" THEN UNCHANGED slot ELSE Fin(r, 500, "http_error")
    /\ UNCHANGED <<qhist, context, page, listeners, hooks, engine>>
    /\ UNCHANGED evars

\* Lines 839-843: p.title() (its failure is caught), then
\* self.context.pages.index(p), which raises when p is no longer listed.
new_page_return(r) ==
    /\ At(r, {<<"page", "new">>}, "np_title")
    /\ IF context /\ h[r].target \in Range(pages)
       THEN Fin(r, 200, "ok") /\ h' = [h EXCEPT ![r].hpc = "returned"]
       ELSE RaiseIn(r, "other") /\ h' = [h EXCEPT ![r].hpc = "raised"]
    /\ UNCHANGED <<qhist, svars>>
    /\ UNCHANGED evars

out_of_range_strict(id, n) == id < 0 \/ id >= n - 1

\* Line 849: "id < 0 or id >= len(pages)".
out_of_range(id, n) == id < 0 \/ id >= n

\* switch_page, lines 846-852 up to the await of page.title().
switch_page(r) ==
    /\ At(r, {<<"page", "switch">>}, "entry")
    /\ IF ~context
       THEN /\ Fin(r, 400, "http_error")
            /\ h' = [h EXCEPT ![r].hpc = "raised"]
            /\ UNCHANGED page
       ELSE \E id \in (0 - 1)..Len(pages) :
              IF out_of_range(id, Len(pages))
              THEN /\ Fin(r, 404, "http_error")
                   /\ h' = [h EXCEPT ![r].hpc = "raised", ![r].id = id]
                   /\ UNCHANGED page
              ELSE /\ page' = pages[id + 1]
                   /\ h' = [h EXCEPT ![r].hpc = "sw_title", ![r].target = pages[id + 1],
                                     ![r].id = id,
                                     ![r].unchecked = TRUE, ![r].bare = TRUE]
                   /\ UNCHANGED slot
    /\ UNCHANGED <<qhist, context, listeners, hooks, engine, faults>>
    /\ UNCHANGED evars

\* Line 852: page.title() returns or raises (nothing catches it).
switch_title(r) ==
    /\ At(r, {<<"page", "switch">>}, "sw_title")
    /\ \E res \in PageCall(h[r].target) :
         /\ faults' = faults + FaultCost(h[r].target, res)
         /\ h' = [h EXCEPT ![r].saw_closed = (res = "closed"),
                           ![r].hpc = IF res = "ok" THEN "returned" ELSE "raised"]
         /\ IF res = "ok" THEN Fin(r, 200, "ok") ELSE RaiseIn(r, res)
    /\ UNCHANGED <<qhist, context, page, listeners, hooks, engine>>
    /\ UNCHANGED evars

\* close_page, lines 662-673 up to the await of goto or of page.close().
close_page(r) ==
    /\ At(r, {<<"page", "close">>}, "entry")
    /\ IF page = NoPage
       THEN /\ Fin(r, 400, "http_error")
            /\ h' = [h EXCEPT ![r].hpc = "raised"]
       ELSE IF ~context
       THEN /\ Fin(r, 500, "http_error")
            /\ h' = [h EXCEPT ![r].hpc = "raised"]
       ELSE IF Len(pages) <= 1
       THEN /\ h' = [h EXCEPT ![r].hpc = "cp_goto", ![r].target = page,
                              ![r].unchecked = TRUE, ![r].bare = TRUE]
            /\ UNCHANGED slot
       ELSE /\ h' = [h EXCEPT ![r].hpc = "cp_close", ![r].target = page]
            /\ UNCHANGED slot
    /\ UNCHANGED <<qhist, svars>>
    /\ UNCHANGED evars

\* Lines 670-672 and 678-682: goto("about:blank") returns or raises.
close_page_blank(r) ==
    /\ At(r, {<<"page", "close">>}, "cp_goto")
    /\ \E res \in PageCall(h[r].target) :
         LET hr == [h[r] EXCEPT !.saw_closed = (res = "closed")]
         IN  /\ faults' = faults + FaultCost(h[r].target, res)
             /\ IF res = "ok"
                THEN /\ Fin(r, 200, "ok")
                     /\ h' = [h EXCEPT ![r] = [hr EXCEPT !.hpc = "returned"]]
                ELSE IF res = "closed"
                THEN StopCall(r, "raise400", hr)
                ELSE /\ Fin(r, 500, "http_error")
                     /\ h' = [h EXCEPT ![r] = [hr EXCEPT !.hpc = "raised"]]
    /\ UNCHANGED <<qhist, context, page, listeners, hooks, engine>>
    /\ UNCHANGED evars

\* Lines 673-677: page.close() has completed; the first remaining page
\* becomes current, or a new page is requested.
close_page_closed(r) ==
    /\ At(r, {<<"page", "close">>}, "cp_close")
    /\ pages' = Without(pages, h[r].target)
    /\ crashed' = crashed \ {h[r].target}
    /\ IF pages' # <<>>
       THEN /\ page' = pages'[1]
            /\ Fin(r, 200, "ok")
            /\ h' = [h EXCEPT ![r].hpc = "returned"]
       ELSE /\ h' = [h EXCEPT ![r].hpc = "cp_new"]
            /\ UNCHANGED <<slot, page>>
    /\ UNCHANGED <<qhist, context, listeners, hooks, engine_open, next_page, faults>>
    /\ UNCHANGED evars

\* close_others, lines 855-862 up to the awaits of p.close().
close_others(r) ==
    /\ At(r, {<<"page", "close_others">>}, "entry")
    /\ IF ~context \/ page = NoPage
       THEN /\ Fin(r, 400, "http_error")
            /\ h' = [h EXCEPT ![r].hpc = "raised"]
       ELSE /\ h' = [h EXCEPT ![r].hpc = "co_close", ![r].target = page]
            /\ UNCHANGED slot
    /\ UNCHANGED <<qhist, svars>>
    /\ UNCHANGED evars

\* Lines 859-870: every page other than the current one has been closed.
close_others_closed(r) ==
    /\ At(r, {<<"page", "close_others">>}, "co_close")
    /\ pages' = Only(pages, h[r].target)
    /\ crashed' = crashed \cap {h[r].target}
    /\ IF pages' # <<>>
       THEN /\ Fin(r, 200, "ok")
            /\ h' = [h EXCEPT ![r].hpc = "returned"]
       ELSE /\ h' = [h EXCEPT ![r].hpc = "co_new"]
            /\ UNCHANGED slot
    /\ UNCHANGED <<qhist, context, page, listeners, hooks, engine_open, next_page,
                   faults>>
    /\ UNCHANGED evars

\* Lines 675 and 867, with their except clauses: context.new_page()
\* returns, or raises the closed signature, which leads to stop().
replacement_page(r) ==
    /\ slot[r].pc = "running" /\ h[r].hpc \in {"cp_new", "co_new"}
    /\ IF ~engine_open
       THEN /\ StopCall(r, "raise400", h[r])
            /\ UNCHANGED <<page, listeners, pages, next_page>>
       ELSE /\ next_page <= MaxPages
            /\ pages' = Append(pages, next_page)
            /\ next_page' = next_page + 1
            /\ page' = next_page
            /\ listeners' = on_page(listeners, next_page)
            /\ Fin(r, 200, "ok")
            /\ h' = [h EXCEPT ![r].hpc = "returned"]
    /\ UNCHANGED <<qhist, context, hooks, crashed, engine_open, faults>>
    /\ UNCHANGED evars

\* ------------------------------------------------- the session behaviours
SessionPathsOffered == QueuedPaths \cup { <<"health">>, <<"debug", "info">> }

\* Requests admitted in a session behaviour.
MaxSessionRequests == 2

Next ==
    \/ \E r \in Slots :
         \/ \E path \in SessionPathsOffered :
              next_id <= MaxSessionRequests /\ Arrive(r, path)
         \/ AwaitTurn(r)
         \/ Release(r)
         \/ ensure_title(r)
         \/ ensure_new_page(r)
         \/ stop(r)
         \/ stop_close(r)
         \/ stop_clear(r)
         \/ start(r)
         \/ start_launch(r)
         \/ start_adopt(r)
         \/ start_new_page(r)
         \/ page_op(r)
         \/ guard_first(r)
         \/ guard_sleep(r)
         \/ guard_retry(r)
         \/ navigate_goto(r)
         \/ navigate_title(r)
         \/ click_act(r)
         \/ get_status(r)
         \/ status_title(r)
         \/ cdp_send(r)
         \/ cdp_result(r)
         \/ new_page(r)
         \/ new_page_created(r)
         \/ new_page_goto(r)
         \/ new_page_return(r)
         \/ switch_page(r)
         \/ switch_title(r)
         \/ close_page(r)
         \/ close_page_blank(r)
         \/ close_page_closed(r)
         \/ close_others(r)
         \/ close_others_closed(r)
         \/ replacement_page(r)
    \/ \E p \in PageIds : EnginePageClosed(p)
    \/ \E p \in PageIds : EnginePageCrashed(p)
    \/ EngineContextClosed

Init == QInit

Spec == Init /\ [][Next]_vars

\* ------------------------------------------------------------ network log
\* self.network_limit (2000 in the source), scaled down.
network_limit == 2

\* The responses the browser delivers.
Statuses == {200, 404}

\* id(request): the identity of the engine's request object number n.
\* Request 0 stands for a request the handlers never saw (sent before the
\* hooks of start() were registered).
ObjectId(n) == <<"request", n>>

store_keep_oldest(log, entry_id) ==
    IF Len(log) >= network_limit THEN log ELSE Append(log, entry_id)

\* _store_network_entry, lines 247 and 249-250: append, then popleft when
\* the deque is over the limit.
store(log, entry_id) ==
    LET a == Append(log, entry_id)
    IN  IF Len(a) > network_limit THEN Tail(a) ELSE a

\* dict without the keys in ks (dict.pop(k, None)).
Drop(f, ks) == [x \in (DOMAIN f) \ ks |-> f[x]]

\* dict with f[k] = v.
Put(f, k, v) == [x \in (DOMAIN f) \cup {k} |-> IF x = k THEN v ELSE f[x]]

purge_nothing(idmap, old_entries) == idmap

\* Lines 251-253: the correlation entries of the evicted records are popped.
purge(idmap, old_entries) ==
    Drop(idmap, {e.request_object_id : e \in old_entries})

\* _handle_request (lines 255-272) with _store_network_entry (246-253):
\* the handler has no await, so it runs in one step when the event fires.
Request ==
    /\ context /\ hooks /\ engine_open
    /\ next_entry <= MaxNetEvents
    /\ LET entry_id == next_entry
           entry == [request_object_id |-> ObjectId(next_entry),
                     response_status |-> 0, response_body |-> FALSE]
           idmap == Put(network_request_id_map, ObjectId(next_entry), entry_id)
           map == Put(network_request_map, entry_id, entry)
           log == store(network_requests, entry_id)
           old == Range(Append(network_requests, entry_id)) \ Range(log)
       IN  /\ network_requests' = log
           /\ network_request_map' = Drop(map, old)
           /\ network_request_id_map' =
                 purge(idmap, {map[e] : e \in old \cap DOMAIN map})
    /\ next_entry' = next_entry + 1
    /\ UNCHANGED <<qhist, slot, h, svars>>
    /\ UNCHANGED <<responses, last_response, reading, request_tasks, identity, downloads, last_download,
                   download_future, download_tasks, next_download, awaited,
                   dialog, dialog_future, dialog_once, next_dialog>>

correlate_any(idmap, o) == o[2]

\* Line 276: self.network_request_id_map.get(request_object_id); 0 is None.
correlate(idmap, o) == IF o \in DOMAIN idmap THEN idmap[o] ELSE 0

\* _handle_response, lines 274-288 up to the await of response.text(): a
\* response event for request n with the given status.
Response(n, status) ==
    /\ context /\ hooks /\ engine_open
    /\ responses < MaxResponses
    /\ responses' = responses + 1
    /\ LET req_id == correlate(network_request_id_map, ObjectId(n))
           hit == req_id # 0 /\ req_id \in DOMAIN network_request_map
       IN  /\ last_response' = [request |-> n, hit |-> hit]
           /\ IF ~hit
              THEN UNCHANGED <<nvars, reading>>
              ELSE /\ network_request_map' =
                        [network_request_map EXCEPT ![req_id].response_status = status]
                   /\ UNCHANGED network_requests
                   /\ \E should_read \in BOOLEAN :
                        IF should_read
                        THEN /\ reading' = reading \cup {<<n, req_id>>}
                             /\ UNCHANGED network_request_id_map
                        ELSE /\ network_request_id_map' =
                                   Drop(network_request_id_map, {ObjectId(n)})
                             /\ UNCHANGED reading
    /\ UNCHANGED <<qhist, slot, h, svars>>
    /\ UNCHANGED <<next_entry, request_tasks, identity, downloads, last_download, download_future,
                   download_tasks, next_download, awaited, dialog, dialog_future,
                   dialog_once, next_dialog>>

\* Lines 288-292: response.text() has returned or raised; the body goes
\* into the entry dict the task holds (which may have left the map by now)
\* and the request is forgotten.
ResponseBody(n, req_id) ==
    /\ <<n, req_id>> \in reading
    /\ reading' = reading \ {<<n, req_id>>}
    /\ \E got \in BOOLEAN :
         network_request_map' =
            IF req_id \in DOMAIN network_request_map
            THEN [network_request_map EXCEPT ![req_id].response_body = got]
            ELSE network_request_map
    /\ network_request_id_map' = Drop(network_request_id_map, {ObjectId(n)})
    /\ UNCHANGED <<qhist, slot, h, svars>>
    /\ UNCHANGED <<network_requests, next_entry, responses, last_response,
                   request_tasks, identity,
                   downloads, last_download, download_future, download_tasks,
                   next_download, awaited, dialog, dialog_future, dialog_once,
                   next_dialog>>

\* The network hooks at work on a started session, with /stop requests.
NetInit == QInit /\ context

NetNext ==
    \/ \E r \in Slots :
         \/ next_id <= MaxSessionRequests /\ Arrive(r, <<"stop">>)
         \/ AwaitTurn(r)
         \/ Release(r)
         \/ stop(r)
         \/ stop_close(r)
         \/ stop_clear(r)
    \/ Request
    \/ \E n \in 0..(next_entry - 1), status \in Statuses : Response(n, status)
    \/ \E n \in 1..MaxNetEvents, req_id \in 1..MaxNetEvents : ResponseBody(n, req_id)

SpecNetwork == NetInit /\ [][NetNext]_vars

\* ---------------------------------------------------- downloads, dialogs
ev_net == <<network_requests, network_request_map, network_request_id_map,
            next_entry, responses, last_response, reading, request_tasks, identity>>

ev_download == <<downloads, last_download, download_future, download_tasks,
                 next_download, awaited>>

ev_dialog == <<dialog, dialog_future, dialog_once, next_dialog>>

\* ------------------------------------------------- network hooks as tasks
\* The addresses the allocator hands to request objects: id(request) is
\* unique among the objects alive at one time, and free again afterwards.
MaxAddresses == 2

Addresses == 1..MaxAddresses

\* Line 344: the "request" event fires for a new request object, which
\* lives at an address no live request object holds; the lambda creates the
\* task that will run _handle_request.
request_event(a) ==
    /\ context /\ hooks /\ engine_open
    /\ next_entry <= MaxNetEvents
    /\ \A n \in 1..MaxNetEvents : identity[n] # a
    /\ identity' = [identity EXCEPT ![next_entry] = a]
    /\ request_tasks' = request_tasks \cup {next_entry}
    /\ next_entry' = next_entry + 1
    /\ UNCHANGED <<qhist, slot, h, svars, nvars, responses, last_response, reading>>
    /\ UNCHANGED <<ev_download, ev_dialog>>

\* _handle_request (lines 255-272) with _store_network_entry (246-253), run
\* by the event loop as the task of request n: nothing in it looks at the
\* session.
handle_request(n) ==
    /\ n \in request_tasks
    /\ request_tasks' = request_tasks \ {n}
    /\ LET entry_id == n
           entry == [request_object_id |-> ObjectId(identity[n]),
                     response_status |-> 0, response_body |-> FALSE]
           idmap == Put(network_request_id_map, ObjectId(identity[n]), entry_id)
           map == Put(network_request_map, entry_id, entry)
           log == store(network_requests, entry_id)
           old == Range(Append(network_requests, entry_id)) \ Range(log)
       IN  /\ network_requests' = log
           /\ network_request_map' = Drop(map, old)
           /\ network_request_id_map' =
                 purge(idmap, {map[e] : e \in old \cap DOMAIN map})
    /\ UNCHANGED <<qhist, slot, h, svars>>
    /\ UNCHANGED <<next_entry, responses, last_response, reading, identity>>
    /\ UNCHANGED <<ev_download, ev_dialog>>

\* Line 345 and _handle_response, lines 274-288 up to the await of
\* response.text(): the response event of the live request n, whose own
\* request task ran before (tasks run in the order they were created).
handle_response(n, status) ==
    /\ context /\ hooks /\ engine_open
    /\ identity[n] # 0 /\ n \notin request_tasks
    /\ responses < MaxResponses
    /\ responses' = responses + 1
    /\ LET o == ObjectId(identity[n])
           req_id == correlate(network_request_id_map, o)
           hit == req_id # 0 /\ req_id \in DOMAIN network_request_map
       IN  /\ last_response' = [request |-> n, hit |-> hit]
           /\ IF ~hit
              THEN UNCHANGED <<nvars, reading>>
              ELSE /\ network_request_map' =
                        [network_request_map EXCEPT ![req_id].response_status = status]
                   /\ UNCHANGED network_requests
                   /\ \E should_read \in BOOLEAN :
                        IF should_read
                        THEN /\ reading' = reading \cup {<<n, req_id>>}
                             /\ UNCHANGED network_request_id_map
                        ELSE /\ network_request_id_map' =
                                   Drop(network_request_id_map, {o})
                             /\ UNCHANGED reading
    /\ UNCHANGED <<qhist, slot, h, svars>>
    /\ UNCHANGED <<next_entry, request_tasks, identity>>
    /\ UNCHANGED <<ev_download, ev_dialog>>

\* Lines 288-292 for the task of request n: response.text() has returned
\* or raised.
handle_response_body(n, req_id) ==
    /\ <<n, req_id>> \in reading
    /\ reading' = reading \ {<<n, req_id>>}
    /\ \E got \in BOOLEAN :
         network_request_map' =
            IF req_id \in DOMAIN network_request_map
            THEN [network_request_map EXCEPT ![req_id].response_body = got]
            ELSE network_request_map
    /\ network_request_id_map' =
          Drop(network_request_id_map, {ObjectId(identity[n])})
    /\ UNCHANGED <<qhist, slot, h, svars>>
    /\ UNCHANGED <<network_requests, next_entry, responses, last_response,
                   request_tasks, identity>>
    /\ UNCHANGED <<ev_download, ev_dialog>>

\* The engine drops a request object that no task holds (the request has
\* finished or failed): its address is free for a later object. The server
\* keeps only the number id(request), which keeps nothing alive.
EngineRequestReleased(n) ==
    /\ identity[n] # 0
    /\ n \notin request_tasks
    /\ \A t \in reading : t[1] # n
    /\ identity' = [identity EXCEPT ![n] = 0]
    /\ UNCHANGED <<qhist, slot, h, svars, nvars>>
    /\ UNCHANGED <<next_entry, responses, last_response, reading, request_tasks>>
    /\ UNCHANGED <<ev_download, ev_dialog>>

HooksNext ==
    \/ \E r \in Slots :
         \/ next_id <= MaxSessionRequests /\ Arrive(r, <<"stop">>)
         \/ AwaitTurn(r)
         \/ Release(r)
         \/ stop(r)
         \/ stop_close(r)
         \/ stop_clear(r)
    \/ \E a \in Addresses : request_event(a)
    \/ \E n \in 1..MaxNetEvents : handle_request(n)
    \/ \E n \in 1..MaxNetEvents, status \in Statuses : handle_response(n, status)
    \/ \E n \in 1..MaxNetEvents, req_id \in 1..MaxNetEvents : handle_response_body(n, req_id)
    \/ \E n \in 1..MaxNetEvents : EngineRequestReleased(n)

SpecHooks == NetInit /\ [][HooksNext]_vars

\* Line 240 and line 626: "fut and not fut.done()".
unresolved(fut) == fut.state = "pending"

\* The engine reports a download on page p: every "download" listener of
\* the page (line 244) creates a _handle_download task, which runs up to
\* the await of download.save_as (lines 230-234).
Download(p) ==
    /\ engine_open /\ p \in Range(pages) /\ p \notin crashed
    /\ listeners[p] > 0
    /\ next_download <= MaxDownloads
    /\ download_tasks' = [download_tasks EXCEPT ![next_download] = listeners[p]]
    /\ next_download' = next_download + 1
    /\ UNCHANGED <<qhist, slot, h, svars, ev_net, ev_dialog>>
    /\ UNCHANGED <<downloads, last_download, download_future, awaited>>

\* Lines 234-241: save_as has returned or raised in one task; the record
\* is stored and a pending download_future is resolved with it.
DownloadSaved(d) ==
    /\ download_tasks[d] > 0
    /\ download_tasks' = [download_tasks EXCEPT ![d] = @ - 1]
    /\ last_download' = set_last(last_download, Info(d, "download_dir"))
    /\ downloads' = Append(downloads, Info(d, "download_dir"))
    /\ download_future' =
          IF unresolved(download_future)
          THEN [state |-> "done", result |-> Info(d, "download_dir")]
          ELSE download_future
    /\ UNCHANGED <<qhist, slot, h, svars, ev_net, ev_dialog>>
    /\ UNCHANGED <<next_download, awaited>>

\* wait_download, lines 609-614 up to the await of wait_for.
wait_download(r) ==
    /\ At(r, {<<"download", "await">>}, "entry")
    /\ IF ~context
       THEN /\ Fin(r, 400, "http_error")
            /\ h' = [h EXCEPT ![r].hpc = "raised"]
            /\ UNCHANGED download_future
       ELSE /\ download_future' = NewDownloadFuture
            /\ h' = [h EXCEPT ![r].hpc = "dl_wait"]
            /\ UNCHANGED slot
    /\ UNCHANGED <<qhist, svars, ev_net, ev_dialog>>
    /\ UNCHANGED <<downloads, last_download, download_tasks, next_download, awaited>>

\* Lines 614-618: wait_for returns the future's result, or the deadline
\* passes first: wait_for cancels the future and the handler raises 408.
download_result(r) ==
    /\ At(r, {<<"download", "await">>}, "dl_wait")
    /\ IF download_future.state = "done"
       THEN /\ Fin(r, 200, "ok")
            /\ h' = [h EXCEPT ![r].hpc = "returned", ![r].got = download_future.result.download]
            /\ awaited' = Append(awaited, download_future.result)
            /\ UNCHANGED download_future
       ELSE /\ download_future' = [state |-> "cancelled", result |-> NoInfo]
            /\ Fin(r, 408, "http_error")
            /\ h' = [h EXCEPT ![r].hpc = "raised"]
            /\ UNCHANGED awaited
    /\ UNCHANGED <<qhist, svars, ev_net, ev_dialog>>
    /\ UNCHANGED <<downloads, last_download, download_tasks, next_download>>

\* What the caller asks wait_dialog to do with the dialog.
DialogActions == {"none", "accept", "dismiss"}

\* wait_dialog, lines 621-632 up to the await of wait_for.
wait_dialog(r) ==
    /\ At(r, {<<"dialog", "await">>}, "entry")
    /\ IF page = NoPage
       THEN /\ Fin(r, 400, "http_error")
            /\ h' = [h EXCEPT ![r].hpc = "raised"]
            /\ UNCHANGED <<dialog_future, dialog_once>>
       ELSE IF unresolved(dialog_future)
       THEN /\ Fin(r, 409, "http_error")
            /\ h' = [h EXCEPT ![r].hpc = "raised"]
            /\ UNCHANGED <<dialog_future, dialog_once>>
       ELSE /\ dialog_future' = NewFuture
            /\ dialog_once' = [dialog_once EXCEPT ![page] = @ + 1]
            /\ \E action \in DialogActions :
                 h' = [h EXCEPT ![r].hpc = "dg_wait", ![r].action = action]
            /\ UNCHANGED slot
    /\ UNCHANGED <<qhist, svars, ev_net, ev_download>>
    /\ UNCHANGED <<dialog, next_dialog>>

timed_out_pending(fut) == fut

\* asyncio.wait_for (line 633) cancels the awaited future when the
\* deadline passes, which makes fut.done() true.
timed_out(fut) == [state |-> "cancelled", result |-> 0]

\* Lines 633-645: wait_for returns the dialog, or the deadline passes first
\* (the future is cancelled, the handler raises 408 and the once-handler
\* stays subscribed).
dialog_result(r) ==
    /\ At(r, {<<"dialog", "await">>}, "dg_wait")
    /\ IF dialog_future.state = "done"
       THEN /\ IF h[r].action = "none"
               THEN /\ Fin(r, 200, "ok")
                    /\ h' = [h EXCEPT ![r].hpc = "returned",
                                      ![r].got = dialog_future.result]
               ELSE /\ h' = [h EXCEPT ![r].hpc = "dg_act",
                                      ![r].got = dialog_future.result]
                    /\ UNCHANGED slot
            /\ UNCHANGED dialog_future
       ELSE /\ dialog_future' = timed_out(dialog_future)
            /\ Fin(r, 408, "http_error")
            /\ h' = [h EXCEPT ![r].hpc = "raised"]
    /\ UNCHANGED <<qhist, svars, ev_net, ev_download>>
    /\ UNCHANGED <<dialog, dialog_once, next_dialog>>

\* Lines 635-642: dialog.accept / dialog.dismiss returns, or raises (which
\* the except clause turns into 408).
dialog_acted(r) ==
    /\ At(r, {<<"dialog", "await">>}, "dg_act")
    /\ IF engine_open
       THEN /\ dialog' = 0
            /\ Fin(r, 200, "ok")
            /\ h' = [h EXCEPT ![r].hpc = "returned"]
       ELSE /\ Fin(r, 408, "http_error")
            /\ h' = [h EXCEPT ![r].hpc = "raised"]
            /\ UNCHANGED dialog
    /\ UNCHANGED <<qhist, svars, ev_net, ev_download>>
    /\ UNCHANGED <<dialog_future, dialog_once, next_dialog>>

\* A page opens a dialog: the once-handlers subscribed on it run (lines
\* 626-629) and are dropped; the first one resolves a pending future.
DialogOpened(p) ==
    /\ engine_open /\ p \in Range(pages) /\ p \notin crashed
    /\ next_dialog <= MaxDialogs
    /\ next_dialog' = next_dialog + 1
    /\ dialog_once' = [dialog_once EXCEPT ![p] = 0]
    /\ IF dialog_once[p] > 0 /\ unresolved(dialog_future)
       THEN /\ dialog' = next_dialog
            /\ dialog_future' = [state |-> "done", result |-> next_dialog]
       ELSE UNCHANGED <<dialog, dialog_future>>
    /\ UNCHANGED <<qhist, slot, h, svars, ev_net, ev_download>>

\* The await endpoints, /health and /stop on a started session.
AwaitPathsOffered ==
    { <<"health">>, <<"download", "await">>, <<"dialog", "await">>, <<"stop">> }

\* Page downloads in a behaviour of the await endpoints.
MaxAwaitDownloads == 1

AwaitNext ==
    \/ \E r \in Slots :
         \/ \E path \in AwaitPathsOffered : Arrive(r, path)
         \/ AwaitTurn(r)
         \/ Release(r)
         \/ get_status(r)
         \/ status_title(r)
         \/ ensure_title(r)
         \/ ensure_new_page(r)
         \/ stop(r)
         \/ stop_close(r)
         \/ stop_clear(r)
         \/ wait_download(r)
         \/ download_result(r)
         \/ wait_dialog(r)
         \/ dialog_result(r)
         \/ dialog_acted(r)
    \/ \E p \in PageIds : next_download <= MaxAwaitDownloads /\ Download(p)
    \/ \E d \in 1..MaxDownloads : DownloadSaved(d)
    \/ \E p \in PageIds : DialogOpened(p)
    \/ \E p \in PageIds : EnginePageClosed(p)

SpecAwait == NetInit /\ [][AwaitNext]_vars

\* ------------------------------------------------------------ download_url
\* download_url, lines 710-712 up to the await inside _ensure_page.
download_url(r) ==
    /\ At(r, {<<"download">>}, "entry")
    /\ IF ~context \/ page = NoPage
       THEN /\ Fin(r, 400, "http_error")
            /\ h' = [h EXCEPT ![r].hpc = "raised"]
            /\ UNCHANGED <<page, listeners>>
       ELSE EnsureCall(r, "du_goto", h[r])
    /\ UNCHANGED <<qhist, context, hooks, engine, faults>>
    /\ UNCHANGED evars

\* Lines 715-717: goto inside expect_download, then download_info.value.
\* Either the page starts a download, which also fires the page's own
\* "download" listeners (line 244), or the navigation fails or no download
\* comes before the deadline, which the except clause turns into 500.
download_url_goto(r) ==
    /\ At(r, {<<"download">>}, "du_goto")
    /\ \E res \in PageCall(h[r].target), starts \in BOOLEAN :
         /\ faults' = faults + FaultCost(h[r].target, res)
         /\ IF res = "ok" /\ starts /\ next_download <= MaxDownloads
            THEN /\ download_tasks' =
                      [download_tasks EXCEPT ![next_download] = listeners[h[r].target]]
                 /\ next_download' = next_download + 1
                 /\ h' = [h EXCEPT ![r].hpc = "du_save", ![r].got = next_download]
                 /\ UNCHANGED slot
            ELSE /\ Fin(r, 500, "http_error")
                 /\ h' = [h EXCEPT ![r].hpc = "raised",
                                   ![r].saw_closed = (res = "closed")]
                 /\ UNCHANGED <<download_tasks, next_download>>
    /\ UNCHANGED <<qhist, context, page, listeners, hooks, engine>>
    /\ UNCHANGED <<ev_net, ev_dialog>>
    /\ UNCHANGED <<downloads, last_download, download_future, awaited>>

\* Lines 718-726: download.save_as(target_path) under wait_for returns, and
\* the record is stored, or it raises or times out (500).
download_url_saved(r) ==
    /\ At(r, {<<"download">>}, "du_save")
    /\ \E saved \in BOOLEAN :
         IF saved
         THEN /\ last_download' = set_last(last_download, Info(h[r].got, "target"))
              /\ downloads' = Append(downloads, Info(h[r].got, "target"))
              /\ Fin(r, 200, "ok")
              /\ h' = [h EXCEPT ![r].hpc = "returned"]
         ELSE /\ Fin(r, 500, "http_error")
              /\ h' = [h EXCEPT ![r].hpc = "raised"]
              /\ UNCHANGED <<downloads, last_download>>
    /\ UNCHANGED <<qhist, svars, ev_net, ev_dialog>>
    /\ UNCHANGED <<download_future, download_tasks, next_download, awaited>>

\* The download command, page downloads and /stop on a started session.
DownloadPathsOffered == { <<"download">>, <<"stop">> }

DownloadNext ==
    \/ \E r \in Slots :
         \/ \E path \in DownloadPathsOffered : Arrive(r, path)
         \/ AwaitTurn(r)
         \/ Release(r)
         \/ ensure_title(r)
         \/ ensure_new_page(r)
         \/ stop(r)
         \/ stop_close(r)
         \/ stop_clear(r)
         \/ download_url(r)
         \/ download_url_goto(r)
         \/ download_url_saved(r)
    \/ \E p \in PageIds : Download(p)
    \/ \E d \in 1..MaxDownloads : DownloadSaved(d)
    \/ \E p \in PageIds : EnginePageClosed(p)

SpecDownloads == NetInit /\ [][DownloadNext]_vars

\* -------------------------------------------------------------- deadlines
\* evaluate, line 404: the script passed to page.evaluate never settles
\* (for instance "new Promise(() => {})"). The timeout parameter of
\* evaluate is not used anywhere in its body, so the await never resumes.
evaluate_never(r) ==
    /\ At(r, {<<"evaluate">>}, "act1")
    /\ Alive(h[r].target)
    /\ h' = [h EXCEPT ![r].hpc = "hung", ![r].attempts = 1]
    /\ UNCHANGED <<qhist, slot, svars>>
    /\ UNCHANGED evars

\* cdp_send, lines 882-887: session.send has not answered by the deadline;
\* wait_for raises TimeoutError, which the except clause turns into 500.
cdp_deadline(r) ==
    /\ At(r, {<<"cdp", "send">>}, "cdp")
    /\ Alive(h[r].target)
    /\ RaiseIn(r, "other")
    /\ h' = [h EXCEPT ![r].hpc = "raised"]
    /\ UNCHANGED <<qhist, svars>>
    /\ UNCHANGED evars

\* The two operations that take a caller's timeout and hand a caller's
\* script or command to the engine.
DeadlinePathsOffered == { <<"evaluate">>, <<"cdp", "send">> }

DeadlineStep(r) ==
    \/ page_op(r)
    \/ ensure_title(r)
    \/ ensure_new_page(r)
    \/ guard_first(r)
    \/ guard_sleep(r)
    \/ guard_retry(r)
    \/ evaluate_never(r)
    \/ stop_close(r)
    \/ stop_clear(r)
    \/ cdp_send(r)
    \/ cdp_result(r)
    \/ cdp_deadline(r)

DeadlineNext ==
    \/ \E r \in Slots :
         \/ \E path \in DeadlinePathsOffered : Arrive(r, path)
         \/ AwaitTurn(r)
         \/ Release(r)
         \/ DeadlineStep(r)
    \/ \E p \in PageIds : EnginePageClosed(p)

\* The event loop runs every ready task: a request whose turn has come is
\* started, a handler whose awaited call has an outcome is resumed, and the
\* finally block runs.
DeadlineFairness ==
    \A r \in Slots :
        /\ WF_vars(AwaitTurn(r))
        /\ WF_vars(DeadlineStep(r))
        /\ WF_vars(Release(r))

FairSpecDeadline == NetInit /\ [][DeadlineNext]_vars /\ DeadlineFairness

\* ------------------------------------------------------- claims C6 - C10
\* C6: a bypass endpoint only reads the session: no step of a bypass
\* request changes the current-page pointer, the page set or the registered
\* page listeners, also when the current page is unresponsive; and the
\* current-page pointer changes only in a step of the command that holds
\* the head ticket.
C6_Step ==
    /\ \A r \in Slots :
          (slot[r].pc = "running" /\ slot[r].bypass /\ h'[r] # h[r]) =>
             UNCHANGED <<page, pages, listeners>>
    /\ page' # page =>
          \E r \in Slots : Executing(r) /\ slot[r].pc = "running" /\ h'[r] # h[r]

C6_BypassReadsOnly == [][C6_Step]_vars

\* C7 (as stated): whenever a guarded action has failed with the
\* context-destroyed signature, the action has been attempted exactly twice
\* by the time the command completes.
C7_RetriesExactlyOnce ==
    \A r \in Slots :
        (slot[r].pc = "finally" /\ h[r].first = "destroyed") => h[r].attempts = 2

\* C7 (amended): after a context-destroyed failure the guard always runs the
\* page recovery; if the recovery completes the action is retried exactly
\* once and the caller gets the retry's outcome; if the recovery itself
\* fails its error is what the caller gets and the action is not retried.
\* The action is never attempted more than twice, and a second attempt is
\* made only after a context-destroyed first failure.
C7_RetryOnceAfterRecovery ==
    \A r \in Slots :
        /\ h[r].attempts <= 2
        /\ h[r].attempts = 2 => h[r].first = "destroyed" /\ h[r].recovery = "done"
        /\ (slot[r].pc = "finally" /\ h[r].first = "destroyed") =>
              /\ h[r].recovery \in {"done", "failed"}
              /\ h[r].recovery = "done" =>
                    /\ h[r].attempts = 2
                    /\ (slot[r].status = 200) = (h[r].second = "ok")
              /\ h[r].recovery = "failed" =>
                    h[r].attempts = 1 /\ slot[r].status # 200

C7_Witness ==
    \E r \in Slots :
        /\ slot[r].pc = "finally" /\ slot[r].path \in Guarded
        /\ h[r].first = "destroyed" /\ h[r].recovery = "done"
        /\ h[r].attempts = 2 /\ h[r].second = "ok" /\ slot[r].status = 200

\* C8: a navigate, evaluate, scroll or click command one of whose operations
\* on the current page failed with the target/context-closed signature
\* completes with HTTP 400 and with the session stopped (not running, no
\* current page).
C8_ClosedMeansNotStarted ==
    \A r \in Slots :
        (slot[r].pc = "finally" /\ slot[r].path \in PageOps /\ h[r].saw_closed) =>
            slot[r].status = 400 /\ ~context /\ page = NoPage

\* C9: no command performs an engine action on the current page without
\* having run the liveness check first, and none performs one outside the
\* context-destroyed retry.
C9_EveryOperationGuarded ==
    \A r \in Slots : ~h[r].unchecked /\ ~h[r].bare

\* C10: a page command (newPage, switchPage, closePage, closeOtherPages or
\* an operation that runs the liveness check) that completes and leaves the
\* session running leaves at least one page.
C10_Commands ==
    PageOps \cup { <<"page", "new">>, <<"page", "switch">>, <<"page", "close">>,
                   <<"page", "close_others">> }

C10_Step ==
    \A r \in Slots :
        ( /\ slot[r].pc = "running" /\ slot[r].path \in C10_Commands
          /\ slot'[r].pc = "finally" /\ context' ) =>
            Len(pages') >= 1

C10_NeverEmptyWhileRunning == [][C10_Step]_vars

\* ------------------------------------------------------ claims C11 - C20
\* C11: closePage with exactly one page remaining (and no other request in
\* flight) does not end the session: when the result of its
\* goto("about:blank") arrives, the command does not begin a stop, the
\* session is still running, the page set still holds exactly one page, and
\* that page is the current page.
C11_Step ==
    \A r \in Slots :
        ( /\ At(r, {<<"page", "close">>}, "cp_goto")
          /\ Len(pages) = 1
          /\ \A s \in Slots \ {r} : slot[s].pc = "idle"
          /\ h'[r] # h[r] ) =>
            /\ h'[r].hpc # "stop_close"
            /\ context' /\ Len(pages') = 1 /\ page' = pages'[1]

C11_LastPageKept == [][C11_Step]_vars

\* C12: stop never raises and is idempotent: a /stop request always
\* completes with success and with the session not running (no context, no
\* current page), also when context.close() failed; and stop on a session
\* that is not running returns success at once and changes nothing.
C12_StopState ==
    \A r \in Slots :
        (slot[r].path = <<"stop">> /\ slot[r].pc = "finally") =>
            slot[r].status = 200 /\ ~context /\ page = NoPage

C12_StopAgain ==
    \A r \in Slots :
        (At(r, {<<"stop">>}, "entry") /\ ~context /\ h'[r] # h[r]) =>
            /\ slot'[r].pc = "finally" /\ slot'[r].status = 200
            /\ UNCHANGED <<svars, evars>>

C12_StopIdempotent == []C12_StopState /\ [][C12_StopAgain]_vars

C12_Witness ==
    \E r \in Slots :
        /\ slot[r].path = <<"stop">> /\ slot[r].pc = "finally"
        /\ slot[r].status = 200 /\ ~context /\ page = NoPage
        /\ h[r].close_res = "error"

\* C14: start on a session that is already running is a no-op: it returns
\* success in one step, launches nothing, and leaves the context, the
\* current page, the page set, the listeners, the event hooks, the network
\* log, the downloads and the dialog state as they were.
C14_Step ==
    \A r \in Slots :
        (At(r, {<<"start">>}, "entry") /\ context /\ h'[r] # h[r]) =>
            /\ slot'[r].pc = "finally" /\ slot'[r].status = 200
            /\ UNCHANGED <<svars, evars>>

C14_StartNoOp == [][C14_Step]_vars

C14_Witness ==
    \E r \in Slots :
        /\ slot[r].path = <<"start">> /\ slot[r].pc = "finally"
        /\ slot[r].status = 200 /\ h[r].hpc = "returned"
        /\ context /\ Len(pages) = 2 /\ page = pages[2]

\* C15: getStatus never fails: every request served by get_status (/,
\* /health, /debug/info) completes with success, whatever the state of the
\* session and of the current page.
C15_StatusNeverFails ==
    \A r \in Slots :
        (slot[r].pc = "finally" /\ slot[r].path \in StatusPaths) =>
            slot[r].status = 200

\* C16: the network log never holds more than network_limit entries, its
\* entries are in arrival order and are exactly the keys of the entry map,
\* and each request event leaves the last network_limit entries of the log
\* extended by the new one (the oldest entry is the one evicted).
LastN(seq, k) == IF Len(seq) > k THEN SubSeq(seq, Len(seq) - k + 1, Len(seq)) ELSE seq

C16_Bounded ==
    /\ Len(network_requests) <= network_limit
    /\ \A i \in 1..(Len(network_requests) - 1) :
          network_requests[i + 1] = network_requests[i] + 1
    /\ DOMAIN network_request_map = Range(network_requests)

C16_Step ==
    next_entry' = next_entry + 1 =>
        network_requests' = LastN(Append(network_requests, next_entry), network_limit)

C16_NetworkLogBound == []C16_Bounded /\ [][C16_Step]_vars

C16_Witness ==
    /\ Len(network_requests) = network_limit
    /\ network_requests[1] = network_limit + 1
    /\ next_entry = 2 * network_limit + 1

\* C17: a response event for a request that is not in the correlation map
\* (never seen, already answered, or evicted) leaves the network log, every
\* entry and the correlation map unchanged, and starts no body read.
C17_Step ==
    ( /\ responses' = responses + 1
      /\ ObjectId(last_response'.request) \notin DOMAIN network_request_id_map ) =>
        UNCHANGED <<nvars, reading>>

C17_UntrackedResponseNoOp == [][C17_Step]_vars

C17_Witness ==
    /\ ~last_response.hit
    /\ last_response.request \in 1..(next_entry - 1)
    /\ last_response.request \notin Range(network_requests)
    /\ Len(network_requests) = network_limit

\* C13: when stop on a running session has returned, the network log and
\* its maps are empty, the download list is empty and there is no last
\* download, there is no dialog, and neither await signal is left.
C13_StopClearsAll ==
    \A r \in Slots :
        ( /\ slot[r].path = <<"stop">> /\ slot[r].pc = "finally"
          /\ h[r].close_res # "none" ) =>
            /\ network_requests = <<>>
            /\ network_request_map = EmptyMap
            /\ network_request_id_map = EmptyMap
            /\ downloads = <<>> /\ last_download = NoInfo
            /\ dialog = 0
            /\ dialog_future = NoFuture /\ download_future = NoDownloadFuture

\* C18: no download is returned by two /download/await calls.
C18_ResolvedOnce ==
    \A i, j \in DOMAIN awaited : i # j => awaited[i] # awaited[j]

\* C19: a /dialog/await request is never waiting in the admission queue
\* while another dialog wait is pending.
C19_SecondAwaitNotQueued ==
    \A r \in Slots :
        ( /\ slot[r].path = <<"dialog", "await">>
          /\ slot[r].pc \in {"enqueued", "waiting", "woken"} ) =>
            ~unresolved(dialog_future)

\* C20: every operation that has started running finishes and gives its
\* queue ticket back, whatever the engine does with the caller's script or
\* command.
C20_OperationsTerminate ==
    \A r \in Slots : (slot[r].pc = "running") ~> (slot[r].pc = "idle")

\* ------------------------------------------------------ claims C21 - C30
\* C21: the admission queue never fails a command: while a command waits
\* for its turn the queue is non-empty and holds its ticket, no step of any
\* request removes that ticket or gives the waiting command an outcome, and
\* the command leaves the wait only by starting to run.
Waiting == {"enqueued", "waiting", "woken"}

C21_TicketStays ==
    \A r \in Slots :
        slot[r].pc \in Waiting =>
            /\ request_queue # <<>>
            /\ slot[r].request_id \in Range(request_queue)

C21_Step ==
    \A r \in Slots :
        slot[r].pc \in Waiting =>
            /\ slot'[r].pc \in Waiting \cup {"running"}
            /\ slot'[r].request_id = slot[r].request_id
            /\ slot'[r].outcome = "none" /\ slot'[r].status = 0
            /\ slot[r].request_id \in Range(request_queue')

C21_QueueNeverFails == []C21_TicketStays /\ [][C21_Step]_vars

C21_Witness ==
    \E r \in Slots :
        /\ slot[r].pc = "woken" /\ slot[r].waited
        /\ completed # <<>>
        /\ last_outcome = "exception"
        /\ slot[r].request_id \in Range(request_queue)

\* C22: a page-management command (newPage, switchPage, closePage,
\* closeOtherPages) one of whose engine calls failed with the closed
\* signature on a browser context that is gone ends with 400 "Browser not
\* started" and leaves the session stopped.
PageManagement ==
    { <<"page", "new">>, <<"page", "switch">>, <<"page", "close">>,
      <<"page", "close_others">> }

C22_ContextLossIsStop ==
    \A r \in Slots :
        ( /\ slot[r].pc = "finally" /\ slot[r].path \in PageManagement
          /\ h[r].saw_closed /\ ~engine_open ) =>
            slot[r].status = 400 /\ ~context

\* C23: switchPage on a running session with an index that is negative or
\* at least the page count ends with 404 and leaves the current page and
\* the page set unchanged; with an index in range the current page becomes
\* the page at that position, and the page set lists pages in creation
\* order.
C23_CreationOrder ==
    \A i, j \in DOMAIN pages : i < j => pages[i] < pages[j]

C23_Step ==
    \A r \in Slots :
        (At(r, {<<"page", "switch">>}, "entry") /\ context /\ h'[r] # h[r]) =>
            LET id == h'[r].id
            IN  /\ UNCHANGED pages
                /\ IF id < 0 \/ id >= Len(pages)
                   THEN /\ slot'[r].pc = "finally" /\ slot'[r].status = 404
                        /\ UNCHANGED page
                   ELSE /\ page' = pages[id + 1]
                        /\ slot'[r].pc = "running"

C23_SwitchPage == []C23_CreationOrder /\ [][C23_Step]_vars

C23_Witness ==
    \E r \in Slots :
        /\ slot[r].path = <<"page", "switch">> /\ slot[r].pc = "finally"
        /\ slot[r].status = 404
        /\ Len(pages) = 2 /\ h[r].id = 2 /\ page = pages[2]

\* C24: every response, success or error, carries the starting queue
\* position of its request: for a queued command the length of the queue
\* right after its own ticket was appended, which is one more than the
\* number of admitted commands that have not finished; for a bypass
\* request 0.
Unfinished == { id \in Range(admitted) : id \notin Range(completed) }

C24_Reported ==
    \A r \in Slots :
        slot[r].pc = "finally" =>
            /\ slot[r].header_position = slot[r].start_position
            /\ slot[r].bypass => slot[r].header_position = 0
            /\ ~slot[r].bypass => slot[r].header_position >= 1

C24_Step ==
    \A r \in Slots :
        /\ (slot[r].pc = "idle" /\ slot'[r].pc # "idle") =>
              IF slot'[r].bypass
              THEN slot'[r].start_position = 0
              ELSE /\ slot'[r].start_position = Len(request_queue')
                   /\ slot'[r].start_position = Cardinality(Unfinished) + 1
        /\ (slot[r].pc # "idle" /\ slot'[r].pc # "idle") =>
              slot'[r].start_position = slot[r].start_position

C24_QueueMetadata == []C24_Reported /\ [][C24_Step]_vars

C24_Witness ==
    \E r \in Slots :
        /\ slot[r].pc = "finally" /\ slot[r].outcome = "exception"
        /\ ~slot[r].bypass /\ slot[r].header_position = 3

\* C25: an operation that needs a running session, started while there is
\* no session, ends at once with 400 "Browser not started" and changes
\* nothing: no context, no page, no listener, no event state.
SessionRequired ==
    PageOps \cup PageManagement
        \cup { <<"cdp", "send">>, <<"download", "await">>, <<"dialog", "await">> }

C25_NoSessionNoPage == ~context => (page = NoPage /\ ~hooks)

C25_Step ==
    \A r \in Slots :
        ( /\ slot[r].pc = "running" /\ slot[r].path \in SessionRequired
          /\ h[r].hpc = "entry" /\ ~context /\ h'[r] # h[r] ) =>
            /\ slot'[r].pc = "finally" /\ slot'[r].status = 400
            /\ UNCHANGED <<svars, evars>>

C25_NotStarted == []C25_NoSessionNoPage /\ [][C25_Step]_vars

C25_Witness ==
    \E r \in Slots :
        /\ slot[r].path = <<"navigate">> /\ slot[r].pc = "finally"
        /\ slot[r].status = 400 /\ h[r].hpc = "raised" /\ ~h[r].ensured
        /\ ~context /\ page = NoPage /\ pages = <<>>
        /\ completed # <<>>

\* C26: when the liveness check (_ensure_page) returns to the operation
\* that called it, the current page is responsive: it is open in the
\* context and has not crashed.
C26_Step ==
    \A r \in Slots :
        ( /\ slot[r].pc = "running" /\ h[r].hpc \in {"ens_title", "ens_new"}
          /\ ~h[r].ensured /\ h'[r].ensured ) =>
            /\ engine_open'
            /\ page' \in Range(pages') /\ page' \notin crashed'

C26_RecoveryFindsLivePage == [][C26_Step]_vars

\* C27: every entry of the identity-correlation map refers to a record
\* that is still in the network log (and that record carries that
\* identity), the ids in the log are exactly the keys of the record map,
\* and the step that evicts a record leaves neither the record nor a
\* correlation entry for it.
C27_Consistent ==
    /\ \A o \in DOMAIN network_request_id_map :
          /\ network_request_id_map[o] \in Range(network_requests)
          /\ network_request_map[network_request_id_map[o]].request_object_id = o
    /\ Range(network_requests) = DOMAIN network_request_map

C27_Step ==
    \A e \in Range(network_requests) :
        e \notin Range(network_requests') =>
            /\ e \notin DOMAIN network_request_map'
            /\ \A o \in DOMAIN network_request_id_map' :
                  network_request_id_map'[o] # e

C27_EvictionPurges == []C27_Consistent /\ [][C27_Step]_vars

C27_Witness ==
    /\ responses = 0
    /\ next_entry = network_limit + 2
    /\ network_requests[1] = 2
    /\ ObjectId(1) \notin DOMAIN network_request_id_map
    /\ DOMAIN network_request_id_map = {ObjectId(e) : e \in Range(network_requests)}

\* C28: a request event creates its entry with empty response fields, and
\* an entry's response status is written by at most one response event: a
\* step never changes a status that has already been filled in.
C28_Step ==
    /\ (next_entry' = next_entry + 1 /\ next_entry \in DOMAIN network_request_map') =>
          /\ network_request_map'[next_entry].response_status = 0
          /\ ~network_request_map'[next_entry].response_body
    /\ \A e \in DOMAIN network_request_map \cap DOMAIN network_request_map' :
          network_request_map'[e].response_status # network_request_map[e].response_status
              => network_request_map[e].response_status = 0

C28_MutatedOnce == [][C28_Step]_vars

\* C29: every download the engine reports leaves exactly one record in the
\* download list once its handlers have run, and never more than one.
C29_OneRecordPerEvent ==
    \A i, j \in DOMAIN downloads :
        i # j => downloads[i].download # downloads[j].download

\* C30: the last download is the most recent entry of the download list:
\* it is absent exactly when the list is empty and otherwise equals the
\* final element, and a step that adds a record makes it the last download.
C30_LastIsFinal ==
    IF downloads = <<>>
    THEN last_download = NoInfo
    ELSE last_download = downloads[Len(downloads)] /\ last_download # NoInfo

C30_Step ==
    downloads' # downloads =>
        /\ Len(downloads') = Len(downloads) + 1
        /\ SubSeq(downloads', 1, Len(downloads)) = downloads
        /\ last_download' = downloads'[Len(downloads')]

C30_LastDownload == []C30_LastIsFinal /\ [][C30_Step]_vars

C30_Witness ==
    /\ Len(downloads) >= 2
    /\ downloads[1].path = "target"
    /\ downloads[Len(downloads)].path = "download_dir"
    /\ downloads[Len(downloads)].download # downloads[1].download
    /\ last_download = downloads[Len(downloads)]
    /\ ~context

\* ------------------------------------------------------ claims C31 - C37
\* C31: an await-dialog call leaves no subscription behind: whenever no
\* /dialog/await call is inside its wait, no page carries a once-handler
\* for "dialog".
C31_NoSubscriptionLeft ==
    (\A r \in Slots : ~At(r, {<<"dialog", "await">>}, "dg_wait")) =>
        \A p \in PageIds : dialog_once[p] = 0

\* C37: a timed-out await-dialog call leaves no pending wait: whenever an
\* await-dialog call starts on a session with a page and no other call is
\* inside its wait, it is admitted (never 409) with a fresh pending wait;
\* and a dialog that opens on a page carrying a subscription while a wait
\* is pending fulfils that wait.
C37_Step ==
    /\ \A r \in Slots :
          ( /\ At(r, {<<"dialog", "await">>}, "entry") /\ page # NoPage
            /\ \A s \in Slots : ~(slot[s].pc = "running"
                                   /\ h[s].hpc \in {"dg_wait", "dg_act"})
            /\ h'[r] # h[r] ) =>
              /\ h'[r].hpc = "dg_wait" /\ slot'[r].pc = "running"
              /\ dialog_future' = NewFuture
              /\ dialog_once'[page] = dialog_once[page] + 1
    /\ ( /\ next_dialog' = next_dialog + 1
         /\ unresolved(dialog_future)
         /\ \E p \in PageIds : dialog_once[p] > 0 /\ dialog_once'[p] = 0 ) =>
            /\ dialog_future' = [state |-> "done", result |-> next_dialog]
            /\ dialog' = next_dialog

C37_TimeoutLeavesNoWait == [][C37_Step]_vars

C37_Witness ==
    \E r \in Slots :
        /\ At(r, {<<"dialog", "await">>}, "dg_wait")
        /\ dialog_future.state = "done"
        /\ slot[r].request_id = 2 /\ completed = <<1>>
        /\ last_outcome = "http_error"
        /\ download_future = NoDownloadFuture /\ context

\* C32: a command that releases its ticket holds the head of the queue, so
\* the release pops the head and the removal from the middle is never
\* taken; and for every queue of distinct tickets, releasing any ticket of
\* it (head or middle) leaves the other tickets in their order.
TicketQueues ==
    { q \in UNION { [1..n -> 1..MaxRequests] : n \in 0..MaxRequests } :
        \A i, j \in DOMAIN q : i # j => q[i] # q[j] }

C32_ReleaseAtHead ==
    \A r \in Slots :
        (slot[r].pc = "finally" /\ ~slot[r].bypass) =>
            /\ request_queue # <<>>
            /\ request_queue[1] = slot[r].request_id

C32_MiddleRemovalKeepsOrder ==
    \A q \in TicketQueues :
        \A id \in Range(q) :
            release(q, id) = SelectSeq(q, LAMBDA x : x # id)

C32_Step ==
    \A r \in Slots :
        (slot[r].pc = "finally" /\ ~slot[r].bypass /\ slot'[r].pc = "idle") =>
            request_queue' = Tail(request_queue)

C32_HeadRelease ==
    [](C32_ReleaseAtHead /\ C32_MiddleRemovalKeepsOrder) /\ [][C32_Step]_vars

C32_Witness ==
    \E r \in Slots :
        /\ slot[r].pc = "finally" /\ ~slot[r].bypass
        /\ Len(request_queue) = 3
        /\ \E id \in Range(request_queue) :
              \A s \in Slots : slot[s].request_id # id

\* C33: a request abandoned while it waits for its turn leaves no ticket
\* behind: every ticket in the queue belongs to a request that is still
\* being served.
C33_AbandonedTicketRemoved ==
    \A i \in DOMAIN request_queue :
        \E r \in Slots :
            slot[r].pc # "idle" /\ slot[r].request_id = request_queue[i]

\* C34: in every reachable state a current page implies a context, also
\* while a status request that bypasses the queue is suspended inside the
\* liveness check (_ensure_page) and a queued stop runs to its end; and a
\* step that installs a current page is taken with a context, before and
\* after it, so that nothing installs a page after stop() without a start().
StatusInLivenessCheck(r) ==
    /\ slot[r].bypass /\ slot[r].path \in StatusPaths
    /\ h[r].target # NoPage

C34_Step ==
    (page' # page /\ page' # NoPage) => (context' /\ (context \/ page = NoPage))

C34_InstallNeedsContext ==
    (page' # NoPage /\ ~context) => (page = NoPage /\ context' /\ \E r \in Slots : slot[r].path = <<"start">> /\ h'[r] # h[r])

C34_PageImpliesContext ==
    [](page # NoPage => context) /\ [][C34_Step /\ C34_InstallNeedsContext]_vars

C34_Witness ==
    \E r \in Slots :
        /\ StatusInLivenessCheck(r)
        /\ slot[r].pc = "finally" /\ h[r].hpc = "raised"
        /\ ~context /\ page = NoPage /\ ~engine_open
        /\ \E q \in Slots : slot[q].path = <<"stop">> /\ h[q].hpc = "returned"
                               /\ slot[q].status = 200

\* C35: a correlation entry belongs to one request: when a request object
\* takes the identity an older request had, evicting the older record does
\* not take the newer request's correlation entry away, so the response
\* event of a request whose record is in the log and unanswered is
\* recorded in that record.
C35_Step ==
    \A n \in 1..MaxNetEvents :
        ( /\ responses' = responses + 1 /\ last_response'.request = n
          /\ n \in Range(network_requests) /\ n \in DOMAIN network_request_map
          /\ network_request_map[n].response_status = 0 ) =>
            network_request_map'[n].response_status # 0

C35_ResponseRecorded == [][C35_Step]_vars

\* C36: whenever the session is not running, the network log, the record
\* map and the correlation map are empty.
C36_EmptyWhenStopped ==
    ~context => ( /\ network_requests = <<>>
                  /\ network_request_map = EmptyMap
                  /\ network_request_id_map = EmptyMap )

====
